---------------------------- MODULE Spec2Model ----------------------------
(***************************************************************************)
(* A model of unstacked: the rule book and its build engine, the operation *)
(* cache, the rule / model / cache references, the worktree checkout and   *)
(* the Model operations that drive them (Spec); the Path operations on    *)
(* rule books built by hand (PathSpec); the key/value Store of db.rs       *)
(* (StoreSpec) and its commits (PersistSpec); git_helper::checkout with    *)
(* staged changes (CheckoutSpec); the start of a command (LoadSpec);       *)
(* commit and amend inside a series (FocusSpec); the recursion of          *)
(* RuleBook::build call by call (BuildSpec); one process building a stack  *)
(* of two series again and again (StackSpec); the commands with new-series *)
(* and new-anchor on names that exist (UpsertSpec).                        *)
(*                                                                         *)
(* Conventions.  An Option<T> is a sequence of length 0 (None) or 1        *)
(* (Some(x)).  Indices into patches are the program's 0-based indices; the *)
(* TLA+ sequence position of patches[i] is i + 1.  An Oid is the content   *)
(* of the commit it names (git object ids are content hashes): a record    *)
(* [parent, tree, msg], so two commits with the same content are the same  *)
(* Oid.  A tree maps every file of Files to its content.                   *)
(***************************************************************************)
EXTENDS Integers, Sequences, FiniteSets, TLC

VARIABLES
    rules,      \* Model.rules : RuleBook, name -> Rule, of the running (or last) process
    focus,      \* Model.focus : Option<Focus>, of that process
    cache,      \* CachedRepo.cache : GitOpCache.items, Action -> Oid, of that process
    ruleRefs,   \* refs/unstacked/rule/<name> : name -> Oid
    modelRef,   \* refs/unstacked/model : Option<stored Model>
    cacheRef,   \* refs/unstacked/cache : Option<stored GitOpCache>
    head,       \* HEAD commit of the repository
    index,      \* tree of the git index
    workdir,    \* tree of the working directory
    last,       \* the last command and what its operation returned
    pos,        \* path.rs on its own: the last Path operation and its Result<Path>;
                \* in StackSpec what the last call was asked
    kv,         \* db.rs on its own: the Store and its last operation with its result
    storeRef,   \* db.rs on its own: the reference unstacked/store : Option<commit>
    calls       \* RuleBook::build on its own: the call stack of the recursion

vars == <<rules, focus, cache, ruleRefs, modelRef, cacheRef, head, index, workdir, last,
          pos, kv, storeRef, calls>>

----------------------------------------------------------------------------
(* Bounds of the model *)

\* longest patch list a series is let to grow to
MaxPatches == 2

RuleNames == {"base", "feat"}
Files == {"f"}
Contents == {0, 1, 2}

\* what the user writes into a file
Edits == {1}
Messages == {"m"}

None == <<>>
Some(x) == <<x>>

\* pos and kv while no Path operation was run and no Store is open
Idle == [op |-> "idle"]

Trees == [Files -> Contents]

\* the commits that exist before the tool is first run
RootCommit(t) == [parent |-> None, tree |-> t, msg |-> "root"]
BaseCommits == {RootCommit([f \in Files |-> 0]), RootCommit([f \in Files |-> 2])}

----------------------------------------------------------------------------
(* git: three-way merge, cherry-pick *)

\* one file of a three-way merge; a conflict when both sides changed it differently
MergeConflictAt(base, ours, theirs, f) ==
    /\ ours[f] # base[f]
    /\ theirs[f] # base[f]
    /\ ours[f] # theirs[f]

MergeHasConflicts(base, ours, theirs) ==
    \E f \in Files : MergeConflictAt(base, ours, theirs, f)

MergedTree(base, ours, theirs) ==
    [f \in Files |-> IF theirs[f] # base[f] THEN theirs[f] ELSE ours[f]]

\* the tree a commit's change is relative to: its parent's tree, or the empty tree
ParentTree(c) == IF c.parent = None THEN [f \in Files |-> 0] ELSE c.parent[1].tree

\* repo.cherrypick_commit(cherry, target, 0, None).has_conflicts()
CherryPickConflicts(target, cherry) ==
    MergeHasConflicts(ParentTree(cherry), target.tree, cherry.tree)

\* a faulty cherry-pick: the new commit is put on the cherry, not on the target
CherryPickOntoCherry(target, cherry) ==
    [parent |-> Some(cherry),
     tree   |-> MergedTree(ParentTree(cherry), target.tree, cherry.tree),
     msg    |-> cherry.msg]

\* the commit git_helper::cherry_pick creates: parent = target, the merged tree,
\* author / committer / message of the cherry
CherryPickCommit(target, cherry) ==
    [parent |-> Some(target),
     tree   |-> MergedTree(ParentTree(cherry), target.tree, cherry.tree),
     msg    |-> cherry.msg]

\* git_helper::cherry_pick
GitCherryPick(target, cherry) ==
    IF CherryPickConflicts(target, cherry)
    THEN [ok |-> FALSE, id |-> None, target |-> Some(target), cherry |-> Some(cherry)]
    ELSE [ok |-> TRUE, id |-> Some(CherryPickCommit(target, cherry)),
          target |-> Some(target), cherry |-> Some(cherry)]

----------------------------------------------------------------------------
(* The operation cache (git_cache.rs) *)

\* Action::CherryPick { sign, target, cherry }
CherryPickAction(target, cherry, sign) ==
    [sign |-> sign, target |-> target, cherry |-> cherry]

\* self.items.insert(action, id)
CacheInsert(items, action, id) == (action :> id) @@ items

(* The state the build engine works on is passed along as one record w:       *)
(* rules, cache, refs (the rule references), head, index, workdir, and two    *)
(* counters of the running operation: picks, the cherry-picks delegated to    *)
(* git_helper::cherry_pick, and hits, the requests answered from the cache.   *)

\* a faulty cache: the outcome of a conflicting cherry-pick is stored as well,
\* under the action, as the target it was tried on
CacheStoreAlways(w, action, g) ==
    [ok |-> g.ok, id |-> g.id, target |-> g.target, cherry |-> g.cherry,
     w  |-> [w EXCEPT !.cache = CacheInsert(@, action, IF g.ok THEN g.id[1] ELSE g.target[1]),
                      !.picks = @ + 1]]

\* GitOpCache::cherry_pick, lines 54-58: g is what git_helper::cherry_pick
\* returned; the id is stored under the action only when there is one
CacheStore(w, action, g) ==
    IF g.ok
    THEN [ok |-> TRUE, id |-> g.id, target |-> g.target, cherry |-> g.cherry,
          w  |-> [w EXCEPT !.cache = CacheInsert(@, action, g.id[1]), !.picks = @ + 1]]
    ELSE [ok |-> FALSE, id |-> None, target |-> g.target, cherry |-> g.cherry,
          w  |-> [w EXCEPT !.picks = @ + 1]]

\* GitOpCache::cherry_pick on a miss: delegate to git_helper::cherry_pick
CacheMiss(w, target, cherry, sign) ==
    CacheStore(w, CherryPickAction(target, cherry, sign), GitCherryPick(target, cherry))

\* a faulty cache: the map is never looked at
CacheNeverHits(w, target, cherry, sign) == CacheMiss(w, target, cherry, sign)

\* GitOpCache::cherry_pick / CachedRepo::cherry_pick
CacheCherryPick(w, target, cherry, sign) ==
    LET action == CherryPickAction(target, cherry, sign) IN
    IF action \in DOMAIN w.cache
    THEN [ok |-> TRUE, id |-> Some(w.cache[action]), target |-> Some(target),
          cherry |-> Some(cherry), w |-> [w EXCEPT !.hits = @ + 1]]
    ELSE CacheMiss(w, target, cherry, sign)

----------------------------------------------------------------------------
(* Rules, series (rules.rs, series.rs, anchor.rs) *)

\* Rule::Anchor(Anchor { id })
AnchorRule(id) == [kind |-> "Anchor", id |-> id]

\* Rule::Series(Series { patches, parent })
SeriesRule(parent, patches) == [kind |-> "Series", parent |-> parent, patches |-> patches]

\* Series::new
NewSeriesRule(parent) == SeriesRule(parent, <<>>)

\* RuleBook::set_rule, and the self.rules.insert of build / build_path
SetRule(rs, name, rule) == (name :> rule) @@ rs

\* Series::num_patches
NumPatches(series) == Len(series.patches)

\* Series::has_patches
HasPatches(series) == series.patches # <<>>

\* Series::is_top_patch
IsTopPatch(series, idx) ==
    \/ idx = None
    \/ (NumPatches(series) > 0 /\ idx = Some(NumPatches(series) - 1))

\* Path::SeriesItem { name, index }
SeriesItem(name, idx) == [name |-> name, index |-> idx]

\* update_rule_ref: repo.reference("refs/unstacked/rule/{name}", id, force = true)
UpdateRuleRef(w, name, id) == [w EXCEPT !.refs = (name :> id) @@ @]

\* rules::Error::Git(git2::Error), told apart by what failed
GitError(what) == [kind |-> what, path |-> None, base |-> None, patch |-> None]

\* the error slot of a result that is Ok
NoError == GitError("none")

\* series::Error::PatchConflict { index, base, patch }
SeriesPatchConflict(i, base, patch) ==
    [kind |-> "SeriesPatchConflict", index |-> i, base |-> base, patch |-> patch]

\* series::Error::Rule(rules::Error)
SeriesRuleError(err) == [kind |-> "Rule", inner |-> err]

\* a faulty from_series_error: base and patch change places
FromSeriesErrorSwapped(name, err) ==
    IF err.kind = "Rule" THEN err.inner
    ELSE [kind |-> "PatchConflict", path |-> Some(SeriesItem(name, Some(err.index))),
          base |-> err.patch, patch |-> err.base]

\* a faulty from_series_error: the error of a parent's build is given the name
\* of the rule being built
FromSeriesErrorRenames(name, err) ==
    IF err.kind = "Rule"
    THEN IF err.inner.kind = "PatchConflict"
         THEN [err.inner EXCEPT !.path = Some(SeriesItem(name, @[1].index))]
         ELSE err.inner
    ELSE [kind |-> "PatchConflict", path |-> Some(SeriesItem(name, Some(err.index))),
          base |-> err.base, patch |-> err.patch]

\* rules::Error::from_series_error
FromSeriesError(name, err) ==
    IF err.kind = "Rule" THEN err.inner
    ELSE [kind |-> "PatchConflict", path |-> Some(SeriesItem(name, Some(err.index))),
          base |-> err.base, patch |-> err.patch]

\* whether the parent chain that starts at name runs in a cycle: build then
\* recurses without end (no cycle detection, rules.rs 128-147, series.rs 46)
RECURSIVE ChainCycles(_, _, _)
ChainCycles(rs, name, seen) ==
    IF name \notin DOMAIN rs THEN FALSE
    ELSE IF rs[name].kind = "Anchor" THEN FALSE
    ELSE IF name \in seen THEN TRUE
    ELSE ChainCycles(rs, rs[name].parent, seen \cup {name})

Diverges(rs, name) == ChainCycles(rs, name, {})

\* a faulty turn of the loop: the patch is not overwritten by the commit picked
PickResultKeepsPatch(st, i, c) ==
    IF ~c.ok
    THEN [ok |-> FALSE, id |-> None, err |-> SeriesPatchConflict(i, c.target, c.cherry),
          series |-> st.series, w |-> c.w]
    ELSE [ok |-> TRUE, id |-> c.id, err |-> NoError, series |-> st.series, w |-> c.w]

\* one turn of the loop of Series::build_partial: c is what the cherry-pick of
\* patches[i] onto the accumulator st.id returned; a conflict ends the loop with
\* PatchConflict, else the patch is overwritten and becomes the accumulator
PickResult(st, i, c) ==
    IF ~c.ok
    THEN [ok |-> FALSE, id |-> None, err |-> SeriesPatchConflict(i, c.target, c.cherry),
          series |-> st.series, w |-> c.w]
    ELSE [ok |-> TRUE, id |-> c.id, err |-> NoError,
          series |-> [st.series EXCEPT !.patches[i + 1] = c.id[1]], w |-> c.w]

\* a faulty loop: the patches are taken from the last to the first
PickOneReversed(st, i) ==
    PickResult(st, i, CacheCherryPick(st.w, st.id[1],
                                      st.series.patches[NumPatches(st.series) - i], FALSE))

\* the cherry-pick of patches[i] onto the accumulator (series.rs line 50)
PickOne(st, i) ==
    PickResult(st, i, CacheCherryPick(st.w, st.id[1], st.series.patches[i + 1], FALSE))

\* the loop of Series::build_partial over patches.iter_mut().enumerate().take(count):
\* the patches are picked left to right, until one conflicts
RECURSIVE PickLoop(_, _, _)
PickLoop(st, i, count) ==
    IF ~st.ok \/ i >= count \/ i >= NumPatches(st.series) THEN st
    ELSE PickLoop(PickOne(st, i), i + 1, count)

\* the loop started with accum = the parent's commit
PickPatches(w, series, accum, i, count) ==
    PickLoop([ok |-> TRUE, id |-> Some(accum), err |-> NoError, series |-> series, w |-> w],
             i, count)

\* Series::build_partial, given the result p of building the parent rule
\* (line 46): its error is passed on, else the first count patches are picked
BuildPartialOn(p, series, count) ==
    IF ~p.ok
    THEN [ok |-> FALSE, id |-> None, err |-> SeriesRuleError(p.err), series |-> series, w |-> p.w]
    ELSE PickPatches(p.w, series, p.id[1], 0, count)

\* a faulty RuleBook::build: the series is written back to the rule book before
\* the error is returned
BuildSeriesFailedKeeps(name, b) ==
    [ok |-> FALSE, id |-> None, err |-> FromSeriesError(name, b.err),
     w |-> [b.w EXCEPT !.rules = SetRule(@, name, b.series)]]

\* RuleBook::build when series.build failed: the error is wrapped and returned by
\* the ? before self.rules.insert, so the rewritten clone of the series is dropped
BuildSeriesFailed(name, b) ==
    [ok |-> FALSE, id |-> None, err |-> FromSeriesError(name, b.err), w |-> b.w]

\* RuleBook::build when series.build succeeded: the clone is written back and the
\* rule reference is set
BuildSeriesDone(name, b) ==
    [ok |-> TRUE, id |-> b.id, err |-> NoError,
     w |-> UpdateRuleRef([b.w EXCEPT !.rules = SetRule(@, name, b.series)], name, b.id[1])]

\* RuleBook::build, lines 136-142: b is what series.build returned
BuildSeriesResult(name, b) ==
    IF ~b.ok THEN BuildSeriesFailed(name, b) ELSE BuildSeriesDone(name, b)

\* RuleBook::build, for a name whose parent chain does not cycle; Series::build
\* is build_partial with all the patches
RECURSIVE RuleBookBuild(_, _)
RuleBookBuild(w, name) ==
    IF name \notin DOMAIN w.rules
    THEN [ok |-> FALSE, id |-> None, err |-> GitError("NotFound"), w |-> w]
    ELSE IF w.rules[name].kind = "Anchor"
    THEN [ok |-> TRUE, id |-> Some(w.rules[name].id), err |-> NoError,
          w |-> UpdateRuleRef(w, name, w.rules[name].id)]
    ELSE BuildSeriesResult(name,
             BuildPartialOn(RuleBookBuild(w, w.rules[name].parent), w.rules[name],
                            NumPatches(w.rules[name])))

\* Series::build_partial
SeriesBuildPartial(w, series, count) ==
    BuildPartialOn(RuleBookBuild(w, series.parent), series, count)

\* a faulty Series::build_at: index None picks none of the patches
SeriesBuildAtNoneIsParent(w, series, idx) ==
    SeriesBuildPartial(w, series, IF idx = None THEN 0 ELSE idx[1] + 1)

\* Series::build_at
SeriesBuildAt(w, series, idx) ==
    SeriesBuildPartial(w, series, IF idx = None THEN NumPatches(series) ELSE idx[1] + 1)

\* RuleBook::series: the rule is missing, or is no series
SeriesLookupFails(rs, name) == name \notin DOMAIN rs \/ rs[name].kind # "Series"

\* a faulty build_path: the rule reference is set whatever the index
BuildPathResultSetsRef(path, isTop, b) ==
    IF ~b.ok
    THEN [ok |-> FALSE, id |-> None, err |-> FromSeriesError(path.name, b.err), w |-> b.w]
    ELSE [ok |-> TRUE, id |-> b.id, err |-> NoError,
          w |-> UpdateRuleRef([b.w EXCEPT !.rules = SetRule(@, path.name, b.series)],
                              path.name, b.id[1])]

\* RuleBook::build_path, lines 156-166: b is what series.build_at returned; the
\* series is written back, the rule reference is set for a top patch only
BuildPathResult(path, isTop, b) ==
    IF ~b.ok
    THEN [ok |-> FALSE, id |-> None, err |-> FromSeriesError(path.name, b.err), w |-> b.w]
    ELSE [ok |-> TRUE, id |-> b.id, err |-> NoError,
          w |-> IF isTop
                THEN UpdateRuleRef([b.w EXCEPT !.rules = SetRule(@, path.name, b.series)],
                                   path.name, b.id[1])
                ELSE [b.w EXCEPT !.rules = SetRule(@, path.name, b.series)]]

\* RuleBook::build_path
RuleBookBuildPath(w, path) ==
    IF SeriesLookupFails(w.rules, path.name)
    THEN [ok |-> FALSE, id |-> None, err |-> GitError("NotFound"), w |-> w]
    ELSE BuildPathResult(path, IsTopPatch(w.rules[path.name], path.index),
                         SeriesBuildAt(w, w.rules[path.name], path.index))

\* RuleBook::find_rule_use
FindRuleUse(rs, name) ==
    {n \in DOMAIN rs : rs[n].kind = "Series" /\ rs[n].parent = name}

----------------------------------------------------------------------------
(* Paths (path.rs) *)

\* a faulty Path::from_rule: an anchor is taken as a series without patches
PathFromRuleTakesAnchor(rs, name, side) ==
    IF name \notin DOMAIN rs
    THEN [ok |-> FALSE, path |-> None, err |-> GitError("NotFound")]
    ELSE IF rs[name].kind = "Anchor"
    THEN [ok |-> TRUE, path |-> Some(SeriesItem(name, None)), err |-> NoError]
    ELSE [ok |-> TRUE, err |-> NoError,
          path |-> Some(SeriesItem(name,
                      IF NumPatches(rs[name]) = 0 THEN None
                      ELSE IF side = "Last" THEN Some(NumPatches(rs[name]) - 1)
                      ELSE Some(0)))]

\* a faulty Path::from_rule: the last patch for both sides
PathFromRuleAlwaysLast(rs, name, side) ==
    IF name \notin DOMAIN rs
    THEN [ok |-> FALSE, path |-> None, err |-> GitError("NotFound")]
    ELSE IF rs[name].kind = "Anchor"
    THEN [ok |-> FALSE, path |-> None, err |-> GitError("GenericError")]
    ELSE [ok |-> TRUE, err |-> NoError,
          path |-> Some(SeriesItem(name,
                      IF NumPatches(rs[name]) = 0 THEN None
                      ELSE Some(NumPatches(rs[name]) - 1)))]

\* Path::from_rule
PathFromRule(rs, name, side) ==
    IF name \notin DOMAIN rs
    THEN [ok |-> FALSE, path |-> None, err |-> GitError("NotFound")]
    ELSE IF rs[name].kind = "Anchor"
    THEN [ok |-> FALSE, path |-> None, err |-> GitError("GenericError")]
    ELSE LET n == NumPatches(rs[name]) IN
         [ok |-> TRUE, err |-> NoError,
          path |-> Some(SeriesItem(name,
                      IF n = 0 THEN None
                      ELSE IF side = "Last" THEN Some(n - 1) ELSE Some(0)))]

\* a faulty dependent-count logic: the one dependent is entered at its last patch
NextByDependentsEntersLast(rs, path) ==
    LET deps == FindRuleUse(rs, path.name) IN
    IF deps = {} THEN [ok |-> TRUE, path |-> Some(path), err |-> NoError]
    ELSE IF Cardinality(deps) = 1 THEN PathFromRule(rs, CHOOSE d \in deps : TRUE, "Last")
    ELSE [ok |-> FALSE, path |-> None, err |-> GitError("Ambiguous")]

\* the dependent-count logic of Path::next
NextByDependents(rs, path) ==
    LET deps == FindRuleUse(rs, path.name) IN
    IF deps = {} THEN [ok |-> TRUE, path |-> Some(path), err |-> NoError]
    ELSE IF Cardinality(deps) = 1 THEN PathFromRule(rs, CHOOSE d \in deps : TRUE, "First")
    ELSE [ok |-> FALSE, path |-> None, err |-> GitError("Ambiguous")]

\* a faulty Path::next: the end of the series is tested with > for >=
PathNextPastEnd(rs, path) ==
    IF path.index = None THEN NextByDependents(rs, path)
    ELSE IF SeriesLookupFails(rs, path.name)
    THEN [ok |-> FALSE, path |-> None, err |-> GitError("NotFound")]
    ELSE IF path.index[1] + 1 > NumPatches(rs[path.name]) THEN NextByDependents(rs, path)
    ELSE [ok |-> TRUE, path |-> Some(SeriesItem(path.name, Some(path.index[1] + 1))),
          err |-> NoError]

\* Path::next
PathNext(rs, path) ==
    IF path.index = None THEN NextByDependents(rs, path)
    ELSE IF SeriesLookupFails(rs, path.name)
    THEN [ok |-> FALSE, path |-> None, err |-> GitError("NotFound")]
    ELSE IF path.index[1] + 1 >= NumPatches(rs[path.name]) THEN NextByDependents(rs, path)
    ELSE [ok |-> TRUE, path |-> Some(SeriesItem(path.name, Some(path.index[1] + 1))),
          err |-> NoError]

\* a faulty Path::parent: from patch 0 it answers the First side of the parent rule
PathParentEntersFirst(rs, path) ==
    IF path.index = None
    THEN IF SeriesLookupFails(rs, path.name)
         THEN [ok |-> FALSE, path |-> None, err |-> GitError("NotFound")]
         ELSE IF ~HasPatches(rs[path.name])
         THEN PathFromRule(rs, rs[path.name].parent, "Last")
         ELSE [ok |-> TRUE, err |-> NoError,
               path |-> Some(SeriesItem(path.name, Some(NumPatches(rs[path.name]) - 1)))]
    ELSE IF path.index[1] = 0
    THEN IF SeriesLookupFails(rs, path.name)
         THEN [ok |-> FALSE, path |-> None, err |-> GitError("NotFound")]
         ELSE PathFromRule(rs, rs[path.name].parent, "First")
    ELSE [ok |-> TRUE, err |-> NoError,
          path |-> Some(SeriesItem(path.name, Some(path.index[1] - 1)))]

\* Path::parent
PathParent(rs, path) ==
    IF path.index = None
    THEN IF SeriesLookupFails(rs, path.name)
         THEN [ok |-> FALSE, path |-> None, err |-> GitError("NotFound")]
         ELSE IF ~HasPatches(rs[path.name])
         THEN PathFromRule(rs, rs[path.name].parent, "Last")
         ELSE [ok |-> TRUE, err |-> NoError,
               path |-> Some(SeriesItem(path.name, Some(NumPatches(rs[path.name]) - 1)))]
    ELSE IF path.index[1] = 0
    THEN IF SeriesLookupFails(rs, path.name)
         THEN [ok |-> FALSE, path |-> None, err |-> GitError("NotFound")]
         ELSE PathFromRule(rs, rs[path.name].parent, "Last")
    ELSE [ok |-> TRUE, err |-> NoError,
          path |-> Some(SeriesItem(path.name, Some(path.index[1] - 1)))]

----------------------------------------------------------------------------
(* The worktree (git_helper.rs) *)

\* reapply_tree_changes: a three-way merge that fails on a conflict
ReapplyTreeChanges(base, changes, target) ==
    IF MergeHasConflicts(base, changes, target)
    THEN [ok |-> FALSE, tree |-> None]
    ELSE [ok |-> TRUE, tree |-> Some(MergedTree(base, changes, target))]

\* unstaged_tree: the diff from index_tree to the working directory, applied to
\* index_tree, which is the working directory's tree
UnstagedTree(w, indexTree) == w.workdir

\* a faulty end of git_helper::checkout: the index is left as checkout_tree set it
CheckoutWorkdirKeepsIndex(w, commit, newIndex, newWorkdir) ==
    IF ~newWorkdir.ok THEN [ok |-> FALSE, w |-> w]
    ELSE [ok |-> TRUE,
          w |-> [w EXCEPT !.head = commit,
                          !.workdir = newWorkdir.tree[1],
                          !.index = newWorkdir.tree[1]]]

\* git_helper::checkout, lines 284-297: the working directory is merged and
\* HEAD, the working directory and the index are set
CheckoutWorkdir(w, commit, newIndex, newWorkdir) ==
    IF ~newWorkdir.ok THEN [ok |-> FALSE, w |-> w]
    ELSE [ok |-> TRUE,
          w |-> [w EXCEPT !.head = commit,
                          !.workdir = newWorkdir.tree[1],
                          !.index = newIndex.tree[1]]]

\* git_helper::checkout, lines 276-283: newIndex is the merged index
CheckoutIndex(w, commit, newIndex) ==
    IF ~newIndex.ok THEN [ok |-> FALSE, w |-> w]
    ELSE CheckoutWorkdir(w, commit, newIndex,
             ReapplyTreeChanges(w.head.tree, UnstagedTree(w, newIndex.tree[1]), commit.tree))

\* git_helper::checkout
Checkout(w, commit) ==
    CheckoutIndex(w, commit, ReapplyTreeChanges(w.head.tree, w.index, commit.tree))

\* git_helper::capture_tree
CaptureTree(w, useIndex) ==
    IF w.index = w.head.tree /\ ~useIndex THEN UnstagedTree(w, w.index) ELSE w.index

----------------------------------------------------------------------------
(* The Model (model.rs) *)

EmptyMap == <<>>

\* Focus { path, id }
Focus(path, id) == [path |-> path, id |-> id]

\* Model { rules, focus }
ModelOf(rs, fc) == [rules |-> rs, focus |-> fc]

\* a faulty Model::load: the stored focus is kept wherever HEAD is
LoadModelKeepsFocus(ref, h) ==
    IF ref = None THEN ModelOf(EmptyMap, None) ELSE ref[1]

\* Model::load: the stored model, its focus dropped when HEAD is another commit;
\* Model::new() when the reference is missing
LoadModel(ref, h) ==
    IF ref = None THEN ModelOf(EmptyMap, None)
    ELSE IF ref[1].focus # None /\ ref[1].focus[1].id # h
    THEN [ref[1] EXCEPT !.focus = None]
    ELSE ref[1]

\* CachedRepo::from_repo: the stored cache, or an empty one
LoadCache(ref) == IF ref = None THEN EmptyMap ELSE ref[1]

\* the state a new process works on after CachedRepo::discover and Model::load;
\* picks and hits count from zero in every operation
Loaded ==
    [rules |-> LoadModel(modelRef, head).rules, cache |-> LoadCache(cacheRef),
     refs |-> ruleRefs, head |-> head, index |-> index, workdir |-> workdir,
     picks |-> 0, hits |-> 0]

LoadedFocus == LoadModel(modelRef, head).focus

\* the state the running process works on
Running ==
    [rules |-> rules, cache |-> cache, refs |-> ruleRefs,
     head |-> head, index |-> index, workdir |-> workdir,
     picks |-> 0, hits |-> 0]

\* RuleBook::build from outside: a parent chain that cycles never returns
Build(w, name) ==
    IF Diverges(w.rules, name)
    THEN [ok |-> FALSE, id |-> None, err |-> GitError("StackOverflow"), w |-> w]
    ELSE RuleBookBuild(w, name)

\* the loop of RuleBook::build_all: the rules are built in order until one fails
RECURSIVE BuildEach(_, _)
BuildEach(st, order) ==
    IF ~st.ok \/ order = <<>> THEN st
    ELSE BuildEach(Build(st.w, Head(order)), Tail(order))

\* RuleBook::build_all returns Ok(()) or the first error
UnitResult(b) == IF b.ok THEN [b EXCEPT !.id = None] ELSE b

\* RuleBook::build_all: every rule is built, in the order the HashMap hands out
\* its keys (order); the first error ends it
BuildAll(w, order) ==
    UnitResult(BuildEach([ok |-> TRUE, id |-> None, err |-> NoError, w |-> w], order))

\* RuleBook::build_path from outside
BuildPath(w, path) ==
    IF Diverges(w.rules, path.name)
    THEN [ok |-> FALSE, id |-> None, err |-> GitError("StackOverflow"), w |-> w]
    ELSE RuleBookBuildPath(w, path)

\* Model::checkout_path, line 98: c is what git_helper::checkout returned
CheckoutResult(b, c) ==
    IF ~c.ok
    THEN [ok |-> FALSE, id |-> None, err |-> GitError("Conflict"), w |-> c.w]
    ELSE [ok |-> TRUE, id |-> b.id, err |-> NoError, w |-> c.w]

\* Model::checkout_path, lines 97-98: b is what build_path returned
CheckoutBuilt(b) ==
    IF ~b.ok THEN b ELSE CheckoutResult(b, Checkout(b.w, b.id[1]))

\* Model::checkout_path: build the path, then reconcile the worktree to it
CheckoutPath(w, path) == CheckoutBuilt(BuildPath(w, path))

(* A Model operation is modelled by an operator from the world w and the     *)
(* focus fc it starts from to its result: ok, id, err, the world w it leaves  *)
(* and the focus it leaves.                                                   *)

Result(ok, id, err, w, fc) == [ok |-> ok, id |-> id, err |-> err, w |-> w, focus |-> fc]

\* a faulty end of a focus operation: the focus moves to the path but keeps the
\* commit it had
FocusOnStale(r, fc, path) ==
    Result(r.ok, r.id, r.err, r.w,
           IF r.ok THEN Some(Focus(path, IF fc = None THEN r.id[1] ELSE fc[1].id)) ELSE fc)

\* r is what checkout_path returned for path: when it worked, the focus moves
\* to the path and the commit
FocusOn(r, fc, path) ==
    Result(r.ok, r.id, r.err, r.w, IF r.ok THEN Some(Focus(path, r.id[1])) ELSE fc)

\* the end of goto_rule, goto_next and goto_parent: p is the path computed;
\* check it out and, when that worked, move the focus to it
GotoPath(w, fc, p) ==
    IF ~p.ok THEN Result(FALSE, None, p.err, w, fc)
    ELSE FocusOn(CheckoutPath(w, p.path[1]), fc, p.path[1])

\* a faulty Model::goto_rule: the rule is entered at its first patch
GotoRuleFirst(w, fc, name) == GotoPath(w, fc, PathFromRule(w.rules, name, "First"))

\* Model::goto_rule
GotoRule(w, fc, name) == GotoPath(w, fc, PathFromRule(w.rules, name, "Last"))

\* Model::goto_next
GotoNext(w, fc) ==
    IF fc = None THEN Result(TRUE, None, NoError, w, fc)
    ELSE GotoPath(w, fc, PathNext(w.rules, fc[1].path))

\* a faulty Model::goto_parent: no focus is an error
GotoParentNeedsFocus(w, fc) ==
    IF fc = None THEN Result(FALSE, None, GitError("Invalid"), w, fc)
    ELSE GotoPath(w, fc, PathParent(w.rules, fc[1].path))

\* Model::goto_parent
GotoParent(w, fc) ==
    IF fc = None THEN Result(TRUE, None, NoError, w, fc)
    ELSE GotoPath(w, fc, PathParent(w.rules, fc[1].path))

\* head.amend(None, None, None, None, None, Some(&tree)): the same commit with
\* another tree
AmendCommit(commit, tree) == [commit EXCEPT !.tree = tree]

\* git_helper::commit(repo, sig, sig, message, tree, [head])
NewCommit(parent, tree, msg) == [parent |-> Some(parent), tree |-> tree, msg |-> msg]

\* a faulty Series::set_patch: the patch before the index is overwritten
SetPatchBefore(series, i, id) == [series EXCEPT !.patches[IF i = 0 THEN 1 ELSE i] = id]

\* Series::set_patch
SetPatch(series, i, id) == [series EXCEPT !.patches[i + 1] = id]

\* Vec::insert(index, id)
InsertAt(seq, i, id) == SubSeq(seq, 1, i) \o <<id>> \o SubSeq(seq, i + 1, Len(seq))

\* a faulty Series::insert_patch: the index asked for is returned, None included
InsertPatchKeepsIndex(series, idx, id) ==
    [series |-> [series EXCEPT !.patches =
                    InsertAt(@, IF idx = None THEN NumPatches(series) ELSE idx[1], id)],
     index |-> idx]

\* a faulty Series::insert_patch: the patch is always pushed at the end
InsertPatchAppends(series, idx, id) ==
    [series |-> [series EXCEPT !.patches = Append(@, id)],
     index |-> Some(NumPatches(series))]

\* Series::insert_patch
InsertPatch(series, idx, id) ==
    LET i == IF idx = None THEN NumPatches(series) ELSE idx[1] IN
    [series |-> [series EXCEPT !.patches = InsertAt(@, i, id)], index |-> Some(i)]

\* the end of amend_focus and commit_onto_focus: w holds the changed rule book;
\* check the focus path out and, when that worked, set the focus
Refocus(w, fc, path) == FocusOn(CheckoutPath(w, path), fc, path)

\* Model::amend_focus
AmendFocus(w, fc, useIndex) ==
    IF fc = None THEN Result(TRUE, None, NoError, w, fc)
    ELSE LET path == fc[1].path
             name == path.name
         IN IF path.index = None THEN Result(FALSE, None, GitError("Invalid"), w, fc)
            ELSE IF SeriesLookupFails(w.rules, name)
            THEN Result(FALSE, None, GitError("NotFound"), w, fc)
            ELSE IF path.index[1] >= NumPatches(w.rules[name])
            THEN Result(FALSE, None, GitError("Panic"), w, fc)
            ELSE LET id == AmendCommit(fc[1].id, CaptureTree(w, useIndex)) IN
                 Refocus([w EXCEPT !.rules = SetRule(@, name, SetPatch(@[name], path.index[1], id))],
                         fc, path)

\* a faulty end of commit_onto_focus: when the checkout of the path fails, the
\* rule book is put back as it was
RefocusOrRestore(w, changed, fc, path) ==
    IF CheckoutPath(changed, path).ok THEN Refocus(changed, fc, path)
    ELSE Result(FALSE, None, CheckoutPath(changed, path).err,
                [CheckoutPath(changed, path).w EXCEPT !.rules = w.rules], fc)

\* a faulty Model::commit_onto_focus: a failure leaves the rule book as it was
CommitOntoFocusRestores(w, fc, msg, useIndex) ==
    IF fc = None THEN Result(TRUE, None, NoError, w, fc)
    ELSE LET path == fc[1].path
             name == path.name
             id   == NewCommit(fc[1].id, CaptureTree(w, useIndex), msg)
             at   == IF path.index = None THEN None ELSE Some(path.index[1] + 1)
         IN IF SeriesLookupFails(w.rules, name)
            THEN Result(FALSE, None, GitError("NotFound"), w, fc)
            ELSE IF at # None /\ at[1] > NumPatches(w.rules[name])
            THEN Result(FALSE, None, GitError("Panic"), w, fc)
            ELSE LET ins == InsertPatch(w.rules[name], at, id) IN
                 RefocusOrRestore(w, [w EXCEPT !.rules = SetRule(@, name, ins.series)],
                                  fc, SeriesItem(name, ins.index))

\* Model::commit_onto_focus (sign = false, as the command line calls it)
CommitOntoFocus(w, fc, msg, useIndex) ==
    IF fc = None THEN Result(TRUE, None, NoError, w, fc)
    ELSE LET path == fc[1].path
             name == path.name
             id   == NewCommit(fc[1].id, CaptureTree(w, useIndex), msg)
             at   == IF path.index = None THEN None ELSE Some(path.index[1] + 1)
         IN IF SeriesLookupFails(w.rules, name)
            THEN Result(FALSE, None, GitError("NotFound"), w, fc)
            ELSE IF at # None /\ at[1] > NumPatches(w.rules[name])
            THEN Result(FALSE, None, GitError("Panic"), w, fc)
            ELSE LET ins == InsertPatch(w.rules[name], at, id) IN
                 Refocus([w EXCEPT !.rules = SetRule(@, name, ins.series)],
                         fc, SeriesItem(name, ins.index))

\* a RuleBook result as the result of a Model operation that keeps the focus
KeepFocus(b, fc) == Result(b.ok, b.id, b.err, b.w, fc)

\* Model::build
ModelBuild(w, fc, name) == KeepFocus(Build(w, name), fc)

\* Model::build_all
ModelBuildAll(w, fc, order) == KeepFocus(BuildAll(w, order), fc)

\* Model::new_series
NewSeries(w, fc, name, parent) ==
    Result(TRUE, None, NoError, [w EXCEPT !.rules = SetRule(@, name, NewSeriesRule(parent))], fc)

\* Model::new_anchor
NewAnchor(w, fc, name, id) ==
    Result(TRUE, None, NoError, [w EXCEPT !.rules = SetRule(@, name, AnchorRule(id))], fc)

----------------------------------------------------------------------------
(* The commands (main.rs): each runs in a process of its own, which opens   *)
(* the repository (CachedRepo::discover), loads the model (Model::load),    *)
(* runs its operation and, for the commands that save, saves the model      *)
(* (Model::save) when the operation returned Ok.  Drop for CachedRepo saves *)
(* nothing.  The variables rules, focus and cache keep what the process     *)
(* held in memory when it ended.                                            *)

\* what a command leaves in last: the operation, its argument and what it
\* returned, the cherry-picks it delegated and the cache hits it had, whether it
\* ran in the process of the command before (same) and whether it is the build
\* of the rule that command built (again)
Outcome(op, name, r, same, again) ==
    [op |-> op, name |-> name, ok |-> r.ok, id |-> r.id, err |-> r.err,
     picks |-> r.w.picks, hits |-> r.w.hits, same |-> same, again |-> again]

\* the state a process leaves behind; saves says whether the command ends with
\* model.save(repo.repo())?
Leave(r, saves) ==
    /\ rules' = r.w.rules
    /\ focus' = r.focus
    /\ cache' = r.w.cache
    /\ ruleRefs' = r.w.refs
    /\ head' = r.w.head
    /\ index' = r.w.index
    /\ workdir' = r.w.workdir
    /\ modelRef' = IF saves /\ r.ok THEN Some(ModelOf(r.w.rules, r.focus)) ELSE modelRef
    /\ UNCHANGED <<cacheRef, pos, kv, storeRef, calls>>

Init ==
    /\ rules = EmptyMap
    /\ focus = None
    /\ cache = EmptyMap
    /\ ruleRefs = EmptyMap
    /\ modelRef = None
    /\ cacheRef = None
    /\ head = RootCommit([f \in Files |-> 0])
    /\ index = head.tree
    /\ workdir = head.tree
    /\ last = [op |-> "init", name |-> "", ok |-> TRUE, id |-> None, err |-> NoError,
               picks |-> 0, hits |-> 0, same |-> FALSE, again |-> FALSE]
    /\ pos = Idle
    /\ kv = Idle
    /\ storeRef = None
    /\ calls = <<>>

\* a command's process ends: r is what its operation returned
Finish(op, name, r, saves, same, again) ==
    /\ Leave(r, saves)
    /\ last' = Outcome(op, name, r, same, again)

\* Cmd::Next
CmdNext == Finish("goto_next", "", GotoNext(Loaded, LoadedFocus), TRUE, FALSE, FALSE)

\* Cmd::Prev
CmdPrev == Finish("goto_parent", "", GotoParent(Loaded, LoadedFocus), TRUE, FALSE, FALSE)

\* Cmd::Goto
CmdGoto(target) ==
    Finish("goto_rule", target, GotoRule(Loaded, LoadedFocus, target), TRUE, FALSE, FALSE)

\* Cmd::Commit; the model lets a series grow to MaxPatches patches
CmdCommit(msg, useIndex) ==
    /\ (LoadedFocus # None /\ ~SeriesLookupFails(Loaded.rules, LoadedFocus[1].path.name))
         => NumPatches(Loaded.rules[LoadedFocus[1].path.name]) < MaxPatches
    /\ Finish("commit_onto_focus", "",
              CommitOntoFocus(Loaded, LoadedFocus, msg, useIndex), TRUE, FALSE, FALSE)

\* Cmd::Amend
CmdAmend(useIndex) ==
    Finish("amend_focus", "", AmendFocus(Loaded, LoadedFocus, useIndex), TRUE, FALSE, FALSE)

\* Cmd::NewSeries with --parent
CmdNewSeries(name, parent) ==
    Finish("new_series", name, NewSeries(Loaded, LoadedFocus, name, parent), TRUE, FALSE, FALSE)

\* Cmd::NewAnchor with --initial-value
CmdNewAnchor(name, id) ==
    Finish("new_anchor", name, NewAnchor(Loaded, LoadedFocus, name, id), TRUE, FALSE, FALSE)

\* Cmd::Build, the first rule of its list; the command does not save the model
CmdBuild(name) ==
    Finish("build", name, ModelBuild(Loaded, LoadedFocus, name), FALSE, FALSE, FALSE)

\* Cmd::Build, a further rule of its list, built in the same process after the
\* one before it returned Ok
CmdBuildMore(name) ==
    /\ last.op = "build"
    /\ last.ok
    /\ Finish("build", name, ModelBuild(Running, focus, name), FALSE, TRUE, last.name = name)

\* the orders in which a HashMap can hand out the keys of s
Orders(s) == {o \in [1..Cardinality(s) -> s] : \A n \in s : \E i \in DOMAIN o : o[i] = n}

\* Cmd::BuildAll; the command does not save the model
CmdBuildAll ==
    \E order \in Orders(DOMAIN Loaded.rules) :
        Finish("build_all", "", ModelBuildAll(Loaded, LoadedFocus, order), FALSE, FALSE, FALSE)

\* the user edits a file of the working directory
WriteFile(f, c) ==
    /\ workdir[f] # c
    /\ workdir' = [workdir EXCEPT ![f] = c]
    /\ last' = [op |-> "edit", name |-> f, ok |-> TRUE, id |-> None, err |-> NoError,
                picks |-> 0, hits |-> 0, same |-> FALSE, again |-> FALSE]
    /\ UNCHANGED <<rules, focus, cache, ruleRefs, modelRef, cacheRef, head, index, pos, kv, storeRef, calls>>

(* The commands as the model draws them: one anchor, base, which the user    *)
(* may move between the base commits, and one series on it, feat, created   *)
(* once; commits and amends take the working directory.                     *)

\* a command run in a process of its own
NewProcess ==
    \/ \E name \in {"feat"}, parent \in {"base"} :
         name \notin DOMAIN Loaded.rules /\ CmdNewSeries(name, parent)
    \/ \E name \in {"base"}, id \in BaseCommits : CmdNewAnchor(name, id)
    \/ \E name \in RuleNames : CmdBuild(name)
    \/ CmdBuildAll
    \/ \E name \in RuleNames : CmdGoto(name)
    \/ CmdNext
    \/ CmdPrev
    \/ CmdAmend(FALSE)
    \/ \E msg \in Messages : CmdCommit(msg, FALSE)

\* the next rule of a build command, in the process that built the one before
SameProcess == \E name \in RuleNames : CmdBuildMore(name)

\* the user, between two commands
User == \E f \in Files, c \in Edits : WriteFile(f, c)

Next == NewProcess \/ SameProcess \/ User

Spec == Init /\ [][Next]_vars

----------------------------------------------------------------------------
(* path.rs on its own.  Its tests build rule books and paths by hand; here *)
(* the rule book is any rule book over three names whose series have up to *)
(* MaxPatches patches and any of the names for a parent, a missing one and  *)
(* the series itself included, and a path is any name with any index.       *)

PathNames == {"base", "a", "b"}
Sides == {"First", "Last"}

\* the Oid of every patch and anchor of these rule books; Path reads no Oid
AnyOid == RootCommit([f \in Files |-> 0])

PatchLists == {[i \in 1..n |-> AnyOid] : n \in 0..MaxPatches}

PathRules ==
    {AnchorRule(AnyOid)} \cup {SeriesRule(p, ps) : p \in PathNames, ps \in PatchLists}

RuleBooks == UNION {[S -> PathRules] : S \in SUBSET PathNames}

\* Path::SeriesItem values as a test, or a stored focus, can hold them
PathInputs ==
    {SeriesItem(n, idx) :
        n \in PathNames, idx \in {None} \cup {Some(i) : i \in 0..(MaxPatches - 1)}}

\* pos after a Path operation: what it was run on and the Result<Path> it gave
PathOutcome(op, name, side, from, r) ==
    [op |-> op, name |-> name, side |-> side, from |-> from,
     ok |-> r.ok, path |-> r.path, err |-> r.err]

PathInit ==
    /\ rules \in RuleBooks
    /\ pos = Idle
    /\ kv = Idle
    /\ storeRef = None
    /\ calls = <<>>
    /\ focus = None
    /\ cache = EmptyMap
    /\ ruleRefs = EmptyMap
    /\ modelRef = None
    /\ cacheRef = None
    /\ head = RootCommit([f \in Files |-> 0])
    /\ index = head.tree
    /\ workdir = head.tree
    /\ last = [op |-> "init", name |-> "", ok |-> TRUE, id |-> None, err |-> NoError,
               picks |-> 0, hits |-> 0, same |-> FALSE, again |-> FALSE]

\* what a Path operation leaves alone: all but pos
PathFrame ==
    UNCHANGED <<rules, focus, cache, ruleRefs, modelRef, cacheRef, head, index, workdir,
                last, kv, storeRef, calls>>

\* Path::from_rule(&rules, name, side)
FromRule(name, side) ==
    /\ pos' = PathOutcome("from_rule", name, side, None, PathFromRule(rules, name, side))
    /\ PathFrame

\* a path written down as Path::SeriesItem { name, index }
TakePath(p) ==
    /\ pos' = PathOutcome("path", p.name, "", None,
                          [ok |-> TRUE, path |-> Some(p), err |-> NoError])
    /\ PathFrame

\* path.next(&rules) on the path at hand
StepNext ==
    /\ pos # Idle
    /\ pos.ok
    /\ pos' = PathOutcome("next", pos.path[1].name, "", pos.path, PathNext(rules, pos.path[1]))
    /\ PathFrame

\* path.parent(&rules) on the path at hand
StepParent ==
    /\ pos # Idle
    /\ pos.ok
    /\ pos' = PathOutcome("parent", pos.path[1].name, "", pos.path,
                          PathParent(rules, pos.path[1]))
    /\ PathFrame

PathStep ==
    \/ \E name \in PathNames, side \in Sides : FromRule(name, side)
    \/ \E p \in PathInputs : TakePath(p)
    \/ StepNext
    \/ StepParent

PathSpec == PathInit /\ [][PathStep]_vars

----------------------------------------------------------------------------
(* db.rs on its own: the Store over the object database.  An object is its *)
(* content, as an Oid is a content hash: a blob is its bytes, a tree maps   *)
(* entry names to the id and file mode of each entry.  Path segments are   *)
(* names a tree entry may bear; values are of the types the tests store,   *)
(* u64 and String, and a blob holds the JSON text of a value, a sequence of *)
(* characters.                                                              *)

\* path segments of the store
Keys == {"x", "y"}

\* the paths put and get are run on: the empty path and paths of one or two segments
StorePaths == {<<>>} \cup {<<k>> : k \in Keys} \cup {<<j, k>> : j \in Keys, k \in Keys}

\* a value of type u64, of type String
U64(n) == [type |-> "u64", val |-> n]
Str(chars) == [type |-> "String", val |-> chars]

ValueTypes == {"u64", "String"}

\* the values stored: a number, the string of its digits, a string with a quote
StoreValues == {U64(42), Str(<<"4", "2">>), Str(<<"a", "\"">>)}

DigitChars == <<"0", "1", "2", "3", "4", "5", "6", "7", "8", "9">>

\* a u64 in decimal, as serde_json writes it
RECURSIVE Digits(_)
Digits(n) ==
    IF n < 10 THEN <<DigitChars[n + 1]>>
    ELSE Append(Digits(n \div 10), DigitChars[(n % 10) + 1])

\* a character of a JSON string: quote and backslash are escaped
EscapeChar(c) == IF c \in {"\"", "\\"} THEN <<"\\", c>> ELSE <<c>>

RECURSIVE Escape(_)
Escape(chars) ==
    IF chars = <<>> THEN <<>> ELSE EscapeChar(Head(chars)) \o Escape(Tail(chars))

\* a faulty serde_json::ser::to_vec_pretty: the characters of a string are written
\* as they are
ToJsonUnescaped(v) ==
    IF v.type = "u64" THEN Digits(v.val) ELSE <<"\"">> \o v.val \o <<"\"">>

\* serde_json::ser::to_vec_pretty(value)
ToJson(v) ==
    IF v.type = "u64" THEN Digits(v.val) ELSE <<"\"">> \o Escape(v.val) \o <<"\"">>

\* text is a JSON number that fits a u64: digits, no leading zero
IsNumber(text) ==
    /\ text # <<>>
    /\ \A i \in DOMAIN text : \E d \in DOMAIN DigitChars : DigitChars[d] = text[i]
    /\ Len(text) > 1 => text[1] # "0"

DigitValue(c) == (CHOOSE d \in DOMAIN DigitChars : DigitChars[d] = c) - 1

RECURSIVE Number(_, _)
Number(text, acc) ==
    IF text = <<>> THEN acc ELSE Number(Tail(text), acc * 10 + DigitValue(Head(text)))

\* the inside of a JSON string is well formed: no bare quote, every backslash
\* followed by a quote or a backslash
RECURSIVE IsEscaped(_)
IsEscaped(text) ==
    IF text = <<>> THEN TRUE
    ELSE IF Head(text) = "\"" THEN FALSE
    ELSE IF Head(text) = "\\"
    THEN Len(text) >= 2 /\ text[2] \in {"\"", "\\"} /\ IsEscaped(Tail(Tail(text)))
    ELSE IsEscaped(Tail(text))

RECURSIVE Unescape(_)
Unescape(text) ==
    IF text = <<>> THEN <<>>
    ELSE IF Head(text) = "\\" THEN <<text[2]>> \o Unescape(Tail(Tail(text)))
    ELSE <<Head(text)>> \o Unescape(Tail(text))

\* text is a JSON string
IsString(text) ==
    /\ Len(text) >= 2
    /\ text[1] = "\"" /\ text[Len(text)] = "\""
    /\ IsEscaped(SubSeq(text, 2, Len(text) - 1))

\* state::Error::Serde and state::Error::Git, as the result of a get or put
StoreError(kind) == [ok |-> FALSE, val |-> None, err |-> kind]

\* serde_json::de::from_slice::<T>(text), T the type asked for
FromJson(type, text) ==
    IF type = "u64" /\ IsNumber(text)
    THEN [ok |-> TRUE, val |-> Some(U64(Number(text, 0))), err |-> "none"]
    ELSE IF type = "String" /\ IsString(text)
    THEN [ok |-> TRUE, val |-> Some(Str(Unescape(SubSeq(text, 2, Len(text) - 1)))),
          err |-> "none"]
    ELSE StoreError("Serde")

\* repo.blob(data): the blob object
Blob(data) == [kind |-> "blob", data |-> data]

\* a tree object of the given entries; a tree entry
TreeObject(entries) == [kind |-> "tree", entries |-> entries]
TreeEntry(id, mode) == [id |-> id, mode |-> mode]

\* repo.treebuilder(None)?.write(): the empty tree
EmptyTree == TreeObject(EmptyMap)

\* repo.find_tree(oid).ok()
FindTree(oid) == IF oid.kind = "tree" THEN Some(oid) ELSE None

\* tree.and_then(|tree| tree.get_name(key).map(|entry| entry.id()))
EntryId(tree, key) ==
    IF tree = None THEN None
    ELSE IF key \in DOMAIN tree[1].entries THEN Some(tree[1].entries[key].id)
    ELSE None

\* a faulty tree_modify: the builder starts from no tree, whatever the parent
InsertEntryAlone(tree, key, sub) ==
    IF ~sub.ok THEN sub
    ELSE [ok |-> TRUE, mode |-> "Tree", err |-> "none",
          id |-> TreeObject(key :> TreeEntry(sub.id, sub.mode))]

\* repo.treebuilder(tree), builder.insert(key, oid, mode), builder.write(), with
\* sub the (oid, mode) the recursion returned: Ok((tree_id, FileMode::Tree))
InsertEntry(tree, key, sub) ==
    IF ~sub.ok THEN sub
    ELSE [ok |-> TRUE, mode |-> "Tree", err |-> "none",
          id |-> TreeObject((key :> TreeEntry(sub.id, sub.mode))
                              @@ (IF tree = None THEN EmptyMap ELSE tree[1].entries))]

\* a faulty tree_modify: an entry that is no tree is an error (find_tree(..)? for
\* find_tree(..).ok())
RECURSIVE TreeModifyStrict(_, _, _)
TreeModifyStrict(parent, path, oid) ==
    IF path = <<>> THEN [ok |-> TRUE, id |-> oid, mode |-> "Blob", err |-> "none"]
    ELSE IF parent # None /\ FindTree(parent[1]) = None
    THEN [ok |-> FALSE, id |-> oid, mode |-> "Blob", err |-> "NotFound"]
    ELSE IF parent # None
    THEN InsertEntry(FindTree(parent[1]), Head(path),
                     TreeModifyStrict(EntryId(FindTree(parent[1]), Head(path)),
                                      Tail(path), oid))
    ELSE InsertEntry(None, Head(path), TreeModifyStrict(None, Tail(path), oid))

\* tree_modify with f = |_parent| Ok((oid, FileMode::Blob)), as put_oid calls it
RECURSIVE TreeModify(_, _, _)
TreeModify(parent, path, oid) ==
    IF path = <<>> THEN [ok |-> TRUE, id |-> oid, mode |-> "Blob", err |-> "none"]
    ELSE IF parent # None
    THEN InsertEntry(FindTree(parent[1]), Head(path),
                     TreeModify(EntryId(FindTree(parent[1]), Head(path)), Tail(path), oid))
    ELSE InsertEntry(None, Head(path), TreeModify(None, Tail(path), oid))

\* tree_find
RECURSIVE TreeFind(_, _)
TreeFind(parent, path) ==
    IF path = <<>> THEN [ok |-> TRUE, id |-> Some(parent), err |-> "none"]
    ELSE IF parent.kind # "tree" THEN [ok |-> FALSE, id |-> None, err |-> "NotFound"]
    ELSE IF Head(path) \notin DOMAIN parent.entries
    THEN [ok |-> FALSE, id |-> None, err |-> "NotFound"]
    ELSE TreeFind(parent.entries[Head(path)].id, Tail(path))

\* Store::get_blob and Store::get, given what tree_find returned
GetFound(found, type) ==
    IF ~found.ok THEN StoreError(found.err)
    ELSE IF found.id[1].kind # "blob" THEN StoreError("NotFound")
    ELSE FromJson(type, found.id[1].data)

\* Store::get::<T>(path) on the store whose tree is tree
StoreGet(tree, path, type) == GetFound(TreeFind(tree, path), type)

\* a faulty Store::put_oid: the mode tree_modify returned is not looked at
PutModifiedAnyMode(tree, m) ==
    IF ~m.ok THEN [ok |-> FALSE, err |-> m.err, tree |-> tree]
    ELSE [ok |-> TRUE, err |-> "none", tree |-> m.id]

\* Store::put_oid, given what tree_modify returned: a mode other than Tree is the
\* Invalid error and self.tree is left as it is
PutModified(tree, m) ==
    IF ~m.ok THEN [ok |-> FALSE, err |-> m.err, tree |-> tree]
    ELSE IF m.mode # "Tree" THEN [ok |-> FALSE, err |-> "Invalid", tree |-> tree]
    ELSE [ok |-> TRUE, err |-> "none", tree |-> m.id]

\* Store::put_oid
PutOid(tree, path, oid) == PutModified(tree, TreeModify(Some(tree), path, oid))

\* Store::put(path, value)
StorePut(tree, path, v) == PutOid(tree, path, Blob(ToJson(v)))

\* Store::new and the state of the rest, which the store does not touch
StoreInit ==
    /\ kv = [op |-> "new", tree |-> EmptyTree, parent |-> None, path |-> <<>>, type |-> "",
             val |-> None, ok |-> TRUE, err |-> "none"]
    /\ storeRef = None
    /\ calls = <<>>
    /\ pos = Idle
    /\ rules = EmptyMap
    /\ focus = None
    /\ cache = EmptyMap
    /\ ruleRefs = EmptyMap
    /\ modelRef = None
    /\ cacheRef = None
    /\ head = RootCommit([f \in Files |-> 0])
    /\ index = head.tree
    /\ workdir = head.tree
    /\ last = [op |-> "init", name |-> "", ok |-> TRUE, id |-> None, err |-> NoError,
               picks |-> 0, hits |-> 0, same |-> FALSE, again |-> FALSE]

\* what get and put leave alone: all but kv
StoreFrame ==
    UNCHANGED <<rules, focus, cache, ruleRefs, modelRef, cacheRef, head, index, workdir,
                last, pos, storeRef, calls>>

\* kv after kv.put(path, &v) returned r
AfterPut(path, v, r) ==
    [op |-> "put", tree |-> r.tree, parent |-> kv.parent, path |-> path, type |-> v.type,
     val |-> Some(v), ok |-> r.ok, err |-> r.err]

\* kv.put(path, &v)
Put(path, v) ==
    /\ kv' = AfterPut(path, v, StorePut(kv.tree, path, v))
    /\ StoreFrame

\* kv after kv.get::<T>(path) returned r
AfterGet(path, type, r) ==
    [op |-> "get", tree |-> kv.tree, parent |-> kv.parent, path |-> path, type |-> type,
     val |-> r.val, ok |-> r.ok, err |-> r.err]

\* kv.get::<T>(path)
Get(path, type) ==
    /\ kv' = AfterGet(path, type, StoreGet(kv.tree, path, type))
    /\ StoreFrame

StoreStep ==
    \/ \E path \in StorePaths, v \in StoreValues : Put(path, v)
    \/ \E path \in StorePaths, type \in ValueTypes : Get(path, type)

StoreSpec == StoreInit /\ [][StoreStep]_vars

----------------------------------------------------------------------------
(* db.rs on its own, with the reference: one Store handle at a time writes *)
(* its tree as a commit and is opened again from the reference.  The puts  *)
(* are on one segment and one path below it, so that the commit chains     *)
(* stay few.                                                               *)

\* longest chain of commits under the store reference
MaxWrites == 2

PersistPaths == {<<"x">>, <<"x", "y">>}
PersistValues == {U64(42), Str(<<"4", "2">>)}

\* the number of commits of the chain that ends in the commit ref holds
RECURSIVE ChainLength(_)
ChainLength(ref) == IF ref = None THEN 0 ELSE 1 + ChainLength(ref[1].parent)

\* a faulty commit of Store::write: the commit is given no parent
WriteCommitOrphan(parent, tree) ==
    [parent |-> None, tree |-> tree, msg |-> "Update Unstacked Store"]

\* Store::write: self.repo.commit(&sig, &sig, "Update Unstacked Store", &self.tree,
\* the parent if any)
WriteCommit(parent, tree) ==
    [parent |-> parent, tree |-> tree, msg |-> "Update Unstacked Store"]

\* Store::find_commit: the commit the reference peels to, None without reference
FindCommit(ref) == ref

\* Store::open: from_commit of the commit found, or Store::new
StoreOpen(ref) ==
    IF FindCommit(ref) = None THEN [parent |-> None, tree |-> EmptyTree]
    ELSE [parent |-> FindCommit(ref), tree |-> FindCommit(ref)[1].tree]

\* kv after a write that made the commit c, after an open that gave the store st
AfterWrite(c) ==
    [op |-> "write", tree |-> kv.tree, parent |-> Some(c), path |-> <<>>, type |-> "",
     val |-> None, ok |-> TRUE, err |-> "none"]

AfterOpen(st) ==
    [op |-> "open", tree |-> st.tree, parent |-> st.parent, path |-> <<>>, type |-> "",
     val |-> None, ok |-> TRUE, err |-> "none"]

\* what write and open leave alone
PersistFrame ==
    UNCHANGED <<rules, focus, cache, ruleRefs, modelRef, cacheRef, head, index, workdir,
                last, pos, calls>>

\* kv.write(): the commit, then repo.reference(UNSTACKED_STORE_PATH, id, force)
Write ==
    /\ ChainLength(storeRef) < MaxWrites
    /\ storeRef' = Some(WriteCommit(kv.parent, kv.tree))
    /\ kv' = AfterWrite(WriteCommit(kv.parent, kv.tree))
    /\ PersistFrame

\* Store::open(repo): the handle at hand is dropped for a new one
Open ==
    /\ kv' = AfterOpen(StoreOpen(storeRef))
    /\ UNCHANGED storeRef
    /\ PersistFrame

PersistStep ==
    \/ \E path \in PersistPaths, v \in PersistValues : Put(path, v)
    \/ \E path \in PersistPaths, type \in ValueTypes : Get(path, type)
    \/ Write
    \/ Open

PersistSpec == StoreInit /\ [][PersistStep]_vars

----------------------------------------------------------------------------
(* git_helper::checkout on its own: HEAD at any of a few commits, anything  *)
(* staged in the index, anything in the working directory, and a checkout   *)
(* of any of the commits.                                                   *)

\* commits to stand on and to check out: two for every tree
CheckoutCommits ==
    {[parent |-> None, tree |-> t, msg |-> m] : t \in Trees, m \in {"root", "other"}}

CheckoutInit ==
    /\ head \in CheckoutCommits
    /\ index \in Trees
    /\ workdir \in Trees
    /\ rules = EmptyMap
    /\ focus = None
    /\ cache = EmptyMap
    /\ ruleRefs = EmptyMap
    /\ modelRef = None
    /\ cacheRef = None
    /\ last = [op |-> "init", name |-> "", ok |-> TRUE, id |-> None, err |-> NoError,
               picks |-> 0, hits |-> 0, same |-> FALSE, again |-> FALSE]
    /\ pos = Idle
    /\ kv = Idle
    /\ storeRef = None
    /\ calls = <<>>

\* git_helper::checkout(repo, &target) returned r
AfterCheckout(target, r) ==
    /\ head' = r.w.head
    /\ index' = r.w.index
    /\ workdir' = r.w.workdir
    /\ last' = [op |-> "checkout", name |-> "", ok |-> r.ok, id |-> Some(target),
                err |-> IF r.ok THEN NoError ELSE GitError("Conflict"),
                picks |-> 0, hits |-> 0, same |-> FALSE, again |-> FALSE]
    /\ UNCHANGED <<rules, focus, cache, ruleRefs, modelRef, cacheRef, pos, kv, storeRef,
                   calls>>

\* git_helper::checkout(repo, &target)
CheckoutTo(target) == AfterCheckout(target, Checkout(Running, target))

CheckoutStep == \E target \in CheckoutCommits : CheckoutTo(target)

CheckoutSpec == CheckoutInit /\ [][CheckoutStep]_vars

----------------------------------------------------------------------------
(* The start of a command on its own: CachedRepo::discover and Model::load  *)
(* read the cache reference and the model reference, which hold a blob that *)
(* is the JSON of a value or is not JSON of that type at all.               *)

\* a blob that serde_json parses to value
JsonBlob(value) == [parses |-> TRUE, value |-> value]

\* a blob that serde_json rejects
Malformed == [parses |-> FALSE, value |-> <<>>]

\* a faulty CachedRepo::from_repo: the parse error is returned
FromRepoStrict(ref) ==
    IF ref = None THEN [ok |-> TRUE, cache |-> EmptyMap, err |-> NoError]
    ELSE IF ~ref[1].parses
    THEN [ok |-> FALSE, cache |-> EmptyMap, err |-> GitError("Invalid")]
    ELSE [ok |-> TRUE, cache |-> LoadCache(Some(ref[1].value)), err |-> NoError]

\* CachedRepo::from_repo: a missing reference and a parse error both give
\* GitOpCache::new()
FromRepo(ref) ==
    IF ref = None THEN [ok |-> TRUE, cache |-> EmptyMap, err |-> NoError]
    ELSE IF ~ref[1].parses THEN [ok |-> TRUE, cache |-> EmptyMap, err |-> NoError]
    ELSE [ok |-> TRUE, cache |-> LoadCache(Some(ref[1].value)), err |-> NoError]

\* Model::load: a missing reference gives Model::new(), a parse error is
\* returned as an Invalid error, and a parsed model has its focus checked
ModelLoad(ref, h) ==
    IF ref = None
    THEN [ok |-> TRUE, model |-> LoadModel(None, h), err |-> NoError]
    ELSE IF ~ref[1].parses
    THEN [ok |-> FALSE, model |-> ModelOf(EmptyMap, None), err |-> GitError("Invalid")]
    ELSE [ok |-> TRUE, model |-> LoadModel(Some(ref[1].value), h), err |-> NoError]

\* the rule books a saved model holds here
LoadRuleBooks ==
    {EmptyMap} \cup
    {("base" :> AnchorRule(c)) : c \in BaseCommits} \cup
    {("feat" :> NewSeriesRule("base")) @@ ("base" :> AnchorRule(c)) : c \in BaseCommits}

\* the focus a saved model holds: none, or a place in "feat" with the commit
\* that was checked out for it
LoadFocuses(rs) ==
    {None} \cup
    IF "feat" \in DOMAIN rs
    THEN {Some(Focus(SeriesItem("feat", None), c)) : c \in BaseCommits}
    ELSE {}

LoadModels == UNION {{ModelOf(rs, fc) : fc \in LoadFocuses(rs)} : rs \in LoadRuleBooks}

\* the caches a cache blob holds here
LoadCaches ==
    {EmptyMap} \cup
    {CacheInsert(EmptyMap, CherryPickAction(c, c, FALSE), c) : c \in BaseCommits}

LoadInit ==
    /\ modelRef \in {None, Some(Malformed)} \cup {Some(JsonBlob(m)) : m \in LoadModels}
    /\ cacheRef \in {None, Some(Malformed)} \cup {Some(JsonBlob(c)) : c \in LoadCaches}
    /\ head \in BaseCommits
    /\ index = head.tree
    /\ workdir = head.tree
    /\ rules = EmptyMap
    /\ focus = None
    /\ cache = EmptyMap
    /\ ruleRefs = EmptyMap
    /\ last = [op |-> "init", name |-> "", ok |-> TRUE, id |-> None, err |-> NoError,
               picks |-> 0, hits |-> 0, same |-> FALSE, again |-> FALSE]
    /\ pos = Idle
    /\ kv = Idle
    /\ storeRef = None
    /\ calls = <<>>

\* the process holds the cache c.cache and, if Model::load returned one, the
\* model m.model
AfterLoad(c, m) ==
    /\ cache' = c.cache
    /\ rules' = m.model.rules
    /\ focus' = m.model.focus
    /\ last' = [op |-> "load", name |-> "", ok |-> c.ok /\ m.ok, id |-> None,
                err |-> IF ~c.ok THEN c.err ELSE m.err,
                picks |-> 0, hits |-> 0, same |-> FALSE, again |-> FALSE]
    /\ UNCHANGED <<modelRef, cacheRef, ruleRefs, head, index, workdir, pos, kv, storeRef,
                   calls>>

\* main: CachedRepo::discover(args.repo)? and Model::load(repo.repo())?
Load == AfterLoad(FromRepo(cacheRef), ModelLoad(modelRef, head))

\* the user checks another commit out with git
HeadMoves(c) ==
    /\ c # head
    /\ head' = c
    /\ index' = c.tree
    /\ workdir' = c.tree
    /\ last' = [op |-> "git checkout", name |-> "", ok |-> TRUE, id |-> Some(c),
                err |-> NoError, picks |-> 0, hits |-> 0, same |-> FALSE, again |-> FALSE]
    /\ UNCHANGED <<rules, focus, cache, ruleRefs, modelRef, cacheRef, pos, kv, storeRef,
                   calls>>

LoadStep == Load \/ \E c \in BaseCommits : HeadMoves(c)

LoadSpec == LoadInit /\ [][LoadStep]_vars

----------------------------------------------------------------------------
(* commit and amend in the middle of a series: the repository holds an       *)
(* anchor base and a series feat of up to MaxChain patches that was built on *)
(* a base commit, the focus is anywhere in feat and HEAD at its commit, the  *)
(* working directory holds anything, and base may have been moved since.     *)

\* longest series the repository starts with; a commit is made on a series of
\* up to MaxChain patches
MaxChain == 2

\* the messages of the patches the repository starts with, by position
ChainMessages == <<"p1", "p2", "p3">>

\* the series of commits with trees ts made one on the other on commit b
RECURSIVE Chain(_, _)
Chain(b, ts) ==
    IF ts = <<>> THEN <<>>
    ELSE LET before == Chain(b, SubSeq(ts, 1, Len(ts) - 1))
             parent == IF before = <<>> THEN b ELSE before[Len(before)]
         IN Append(before, NewCommit(parent, ts[Len(ts)], ChainMessages[Len(ts)]))

Chains(b) == {Chain(b, ts) : ts \in UNION {[1..n -> Trees] : n \in 0..MaxChain}}

\* the commit the path into feat with index idx was checked out at
ChainCommit(b, chain, idx) ==
    IF idx # None THEN chain[idx[1] + 1]
    ELSE IF chain = <<>> THEN b
    ELSE chain[Len(chain)]

ChainIndices(chain) == {None} \cup {Some(i) : i \in 0..(Len(chain) - 1)}

\* the repository after feat was built on b with the patches chain and the
\* path with index idx was checked out, the anchor now being a
FocusWorld(a, b, chain, idx) ==
    [rules |-> ("feat" :> SeriesRule("base", chain)) @@ ("base" :> AnchorRule(a)),
     focus |-> Some(Focus(SeriesItem("feat", idx), ChainCommit(b, chain, idx))),
     refs  |-> ("feat" :> ChainCommit(b, chain, None)) @@ ("base" :> b)]

FocusWorlds ==
    UNION {UNION {{FocusWorld(a, b, chain, idx) : idx \in ChainIndices(chain), a \in BaseCommits}
                  : chain \in Chains(b)} : b \in BaseCommits}

FocusInit ==
    /\ \E fw \in FocusWorlds :
         /\ rules = fw.rules
         /\ focus = fw.focus
         /\ ruleRefs = fw.refs
         /\ modelRef = Some(ModelOf(fw.rules, fw.focus))
         /\ head = fw.focus[1].id
    /\ index = head.tree
    /\ workdir \in Trees
    /\ cache = EmptyMap
    /\ cacheRef = None
    /\ last = [op |-> "init", name |-> "", ok |-> TRUE, id |-> None, err |-> NoError,
               picks |-> 0, hits |-> 0, same |-> FALSE, again |-> FALSE]
    /\ pos = Idle
    /\ kv = Idle
    /\ storeRef = None
    /\ calls = <<>>

\* Cmd::Commit on a series of up to MaxChain patches
CommitAtFocus(msg) ==
    /\ LoadedFocus # None
    /\ NumPatches(Loaded.rules[LoadedFocus[1].path.name]) <= MaxChain
    /\ Finish("commit_onto_focus", "",
              CommitOntoFocus(Loaded, LoadedFocus, msg, FALSE), TRUE, FALSE, FALSE)

FocusStep ==
    \/ \E msg \in Messages : CommitAtFocus(msg)
    \/ CmdAmend(FALSE)
    \/ CmdPrev

FocusSpec == FocusInit /\ [][FocusStep]_vars

----------------------------------------------------------------------------
(* RuleBook::build call by call: build(name) clones the rule and, for a      *)
(* series, Series::build_partial calls build(parent) before it picks a       *)
(* patch.  calls is the stack of the calls of build that have not returned;  *)
(* one thread runs them, so a call that can take a step takes it.            *)

\* the deepest stack the model follows; the stack of the process is finite too
MaxDepth == 5

\* a patch of the series of these rule books
BuildPatch == NewCommit(RootCommit([f \in Files |-> 0]), [f \in Files |-> 1], "m")

\* what a name of a rule book can be bound to: an anchor, or a series with any
\* of the names, itself included, or a name that is no rule for a parent
BuildRules ==
    {AnchorRule(RootCommit([f \in Files |-> 0]))} \cup
    {SeriesRule(parent, patches) :
        parent \in PathNames \cup {"gone"}, patches \in {<<>>, <<BuildPatch>>}}

BuildBooks == UNION {[names -> BuildRules] : names \in SUBSET PathNames}

\* a call of build(name): the clone of the series once the rule was looked up,
\* and what the call returns once that is known
Frame(name) == [name |-> name, series |-> None, res |-> None]

Top == calls[Len(calls)]

\* the stack with its top call changed to frame
WithTop(frame) == [calls EXCEPT ![Len(calls)] = frame]

BuildInit ==
    /\ rules \in BuildBooks
    /\ focus = None
    /\ cache = EmptyMap
    /\ ruleRefs = EmptyMap
    /\ modelRef = None
    /\ cacheRef = None
    /\ head = RootCommit([f \in Files |-> 0])
    /\ index = head.tree
    /\ workdir = head.tree
    /\ last = [op |-> "init", name |-> "", ok |-> TRUE, id |-> None, err |-> NoError,
               picks |-> 0, hits |-> 0, same |-> FALSE, again |-> FALSE]
    /\ pos = Idle
    /\ kv = Idle
    /\ storeRef = None
    /\ calls = <<>>

\* Model::build calls self.rules.build(cache, rule)
BuildCall(name) ==
    /\ calls = <<>>
    /\ calls' = <<Frame(name)>>
    /\ last' = [op |-> "call", name |-> name, ok |-> TRUE, id |-> None, err |-> NoError,
                picks |-> 0, hits |-> 0, same |-> FALSE, again |-> FALSE]
    /\ UNCHANGED <<rules, focus, cache, ruleRefs, modelRef, cacheRef, head, index, workdir,
                   pos, kv, storeRef>>

\* the call on top has not looked its rule up yet
Called == calls # <<>> /\ Top.series = None /\ Top.res = None

\* rules.rs line 130: self.rule(name)? fails
EnterLookupFails ==
    /\ Called
    /\ Top.name \notin DOMAIN rules
    /\ calls' = WithTop([Top EXCEPT !.res = Some([ok |-> FALSE, id |-> None,
                                                  err |-> GitError("NotFound")])])
    /\ UNCHANGED <<rules, focus, cache, ruleRefs, modelRef, cacheRef, head, index, workdir,
                   last, pos, kv, storeRef>>

\* rules.rs lines 141-144: an anchor gives its id and the rule reference is set
EnterAnchor ==
    /\ Called
    /\ Top.name \in DOMAIN rules
    /\ rules[Top.name].kind = "Anchor"
    /\ calls' = WithTop([Top EXCEPT !.res = Some([ok |-> TRUE, id |-> Some(rules[Top.name].id),
                                                  err |-> NoError])])
    /\ ruleRefs' = UpdateRuleRef(Running, Top.name, rules[Top.name].id).refs
    /\ UNCHANGED <<rules, focus, cache, modelRef, cacheRef, head, index, workdir,
                   last, pos, kv, storeRef>>

\* a faulty series.build: a parent that is being built already is an error
EnterSeriesOnce ==
    /\ Called
    /\ Top.name \in DOMAIN rules
    /\ rules[Top.name].kind = "Series"
    /\ Len(calls) < MaxDepth
    /\ calls' = IF \E i \in DOMAIN calls : calls[i].name = rules[Top.name].parent
                THEN WithTop([Top EXCEPT !.res = Some([ok |-> FALSE, id |-> None,
                                                       err |-> GitError("Cycle")])])
                ELSE Append(WithTop([Top EXCEPT !.series = Some(rules[Top.name])]),
                            Frame(rules[Top.name].parent))
    /\ UNCHANGED <<rules, focus, cache, ruleRefs, modelRef, cacheRef, head, index, workdir,
                   last, pos, kv, storeRef>>

\* rules.rs lines 130-135 and series.rs line 46: the series is cloned and
\* build_partial calls rules.build(cache, self.parent.clone())
EnterSeries ==
    /\ Called
    /\ Top.name \in DOMAIN rules
    /\ rules[Top.name].kind = "Series"
    /\ Len(calls) < MaxDepth
    /\ calls' = Append(WithTop([Top EXCEPT !.series = Some(rules[Top.name])]),
                       Frame(rules[Top.name].parent))
    /\ UNCHANGED <<rules, focus, cache, ruleRefs, modelRef, cacheRef, head, index, workdir,
                   last, pos, kv, storeRef>>

\* the call that would make the stack deeper than it can be: the process is
\* ended by the system and build returns nothing
StackOverflow ==
    /\ Called
    /\ Top.name \in DOMAIN rules
    /\ rules[Top.name].kind = "Series"
    /\ Len(calls) = MaxDepth
    /\ calls' = <<>>
    /\ last' = [op |-> "abort", name |-> calls[1].name, ok |-> FALSE, id |-> None,
                err |-> GitError("StackOverflow"),
                picks |-> 0, hits |-> 0, same |-> FALSE, again |-> FALSE]
    /\ UNCHANGED <<rules, focus, cache, ruleRefs, modelRef, cacheRef, head, index, workdir,
                   pos, kv, storeRef>>

\* the call of build(parent) returned p to build_partial of the series of the
\* call below, which picks its patches; r is what that call of build returns
ReturnedTo(below, r) ==
    /\ calls' = Append(SubSeq(calls, 1, Len(calls) - 2),
                       [below EXCEPT !.res = Some([ok |-> r.ok, id |-> r.id, err |-> r.err])])
    /\ rules' = r.w.rules
    /\ ruleRefs' = r.w.refs
    /\ cache' = r.w.cache
    /\ UNCHANGED <<focus, modelRef, cacheRef, head, index, workdir, last, pos, kv, storeRef>>

\* what build(parent) returned, as the result build_partial goes on from
ParentBuilt == [ok |-> Top.res[1].ok, id |-> Top.res[1].id, err |-> Top.res[1].err,
                w |-> Running]

\* series.rs lines 46-60 and rules.rs lines 134-144, after build(parent) returned
Return ==
    /\ Len(calls) >= 2
    /\ Top.res # None
    /\ ReturnedTo(calls[Len(calls) - 1],
                  BuildSeriesResult(calls[Len(calls) - 1].name,
                      BuildPartialOn(ParentBuilt, calls[Len(calls) - 1].series[1],
                                     NumPatches(calls[Len(calls) - 1].series[1]))))

\* the first call returns to Model::build
BuildReturns ==
    /\ Len(calls) = 1
    /\ Top.res # None
    /\ calls' = <<>>
    /\ last' = [op |-> "build", name |-> Top.name, ok |-> Top.res[1].ok, id |-> Top.res[1].id,
                err |-> Top.res[1].err,
                picks |-> 0, hits |-> 0, same |-> FALSE, again |-> FALSE]
    /\ UNCHANGED <<rules, focus, cache, ruleRefs, modelRef, cacheRef, head, index, workdir,
                   pos, kv, storeRef>>

\* a step of the thread that runs build
BuildRuns ==
    \/ EnterLookupFails
    \/ EnterAnchor
    \/ EnterSeries
    \/ StackOverflow
    \/ Return
    \/ BuildReturns

BuildStep == BuildRuns \/ \E name \in PathNames : BuildCall(name)

\* the thread is not stopped from outside: a call that can go on does
BuildSpec == BuildInit /\ [][BuildStep]_vars /\ WF_vars(BuildRuns)

----------------------------------------------------------------------------
(* The rule book built again and again by one process: an anchor, base, a    *)
(* series on it, low, and a series, top, on base or on low.  The patches    *)
(* were committed on the commit base was at when they were made; base may   *)
(* have moved since.  The process calls build, build_path and build_all on   *)
(* its rule book and its cache; nothing saves the model, so the model        *)
(* reference keeps the patch lists as they were before any build.            *)

StackNames == {"base", "low", "top"}

\* the commit base was at when the patches were made
StackRoot == RootCommit([f \in Files |-> 0])

\* the patches of top: none, or one commit made on a base commit
TopPatches ==
    {<<>>} \cup {<<NewCommit(b, t, "p1")>> : b \in BaseCommits, t \in Trees}

StackBook(a, lowPatches, parent, topPatches) ==
    ("base" :> AnchorRule(a)) @@ ("low" :> SeriesRule("base", lowPatches))
        @@ ("top" :> SeriesRule(parent, topPatches))

StackBooks ==
    {StackBook(a, lp, parent, tp) :
        a \in BaseCommits, lp \in Chains(StackRoot), parent \in {"base", "low"},
        tp \in TopPatches}

StackInit ==
    /\ rules \in StackBooks
    /\ modelRef = Some(ModelOf(rules, None))
    /\ focus = None
    /\ cache = EmptyMap
    /\ ruleRefs = EmptyMap
    /\ cacheRef = None
    /\ head = StackRoot
    /\ index = head.tree
    /\ workdir = head.tree
    /\ last = [op |-> "init", name |-> "", ok |-> TRUE, id |-> None, err |-> NoError,
               picks |-> 0, hits |-> 0, same |-> FALSE, again |-> FALSE]
    /\ pos = Idle
    /\ kv = Idle
    /\ storeRef = None
    /\ calls = <<>>

\* what the process was asked: the path of a build_path, the names of a build
\* command
Asked(path, names) == [path |-> path, names |-> names]

\* what a call on the rule book leaves behind: r is what it returned, asked
\* what it was given
StackDone(op, name, asked, r) ==
    /\ rules' = r.w.rules
    /\ cache' = r.w.cache
    /\ ruleRefs' = r.w.refs
    /\ pos' = asked
    /\ last' = Outcome(op, name, r, TRUE, FALSE)
    /\ UNCHANGED <<focus, modelRef, cacheRef, head, index, workdir, kv, storeRef, calls>>

\* rules.build(cache, name)
StackBuild(name) == StackDone("build", name, Asked(None, <<name>>), Build(Running, name))

\* rules.build_path(cache, &path)
StackBuildPath(name, idx) ==
    StackDone("build_path", name, Asked(Some(SeriesItem(name, idx)), <<>>),
              BuildPath(Running, SeriesItem(name, idx)))

\* rules.build_all(cache)
StackBuildAll(order) == StackDone("build_all", "", Asked(None, <<>>), BuildAll(Running, order))

\* Cmd::Build with two rules: for rule in rules { model.build(&mut repo, rule)? }
StackBuildList(first, second) ==
    StackDone("build_list", second, Asked(None, <<first, second>>),
              BuildEach([ok |-> TRUE, id |-> None, err |-> NoError, w |-> Running],
                        <<first, second>>))

StackStep ==
    \/ \E name \in StackNames : StackBuild(name)
    \/ \E name \in {"low", "top"} : \E idx \in ChainIndices(rules[name].patches) :
         StackBuildPath(name, idx)
    \/ \E order \in Orders(DOMAIN rules) : StackBuildAll(order)
    \/ \E first \in {"low", "top"}, second \in {"low", "top"} :
         first # second /\ StackBuildList(first, second)

StackSpec == StackInit /\ [][StackStep]_vars

----------------------------------------------------------------------------
(* The commands with any name for a new rule: set_rule is an upsert, so      *)
(* new-series and new-anchor may name a rule that exists, the series the     *)
(* focus is in included, and a series may be given any rule, itself          *)
(* included, for its parent.                                                 *)

MaxGrow == 1

AnyNewRule ==
    \/ \E name \in RuleNames, parent \in RuleNames : CmdNewSeries(name, parent)
    \/ \E name \in RuleNames, id \in BaseCommits : CmdNewAnchor(name, id)

\* Cmd::Commit; the model lets a series grow to MaxGrow patches
CommitUpTo(msg) ==
    /\ (LoadedFocus # None /\ ~SeriesLookupFails(Loaded.rules, LoadedFocus[1].path.name))
         => NumPatches(Loaded.rules[LoadedFocus[1].path.name]) < MaxGrow
    /\ Finish("commit_onto_focus", "",
              CommitOntoFocus(Loaded, LoadedFocus, msg, FALSE), TRUE, FALSE, FALSE)

UpsertStep ==
    \/ AnyNewRule
    \/ \E name \in RuleNames : CmdBuild(name)
    \/ CmdBuildAll
    \/ \E name \in RuleNames : CmdGoto(name)
    \/ CmdNext
    \/ CmdPrev
    \/ CmdAmend(FALSE)
    \/ \E msg \in Messages : CommitUpTo(msg)
    \/ User

UpsertSpec == Init /\ [][UpsertStep]_vars

----------------------------------------------------------------------------
(* Properties *)

\* the commit a clean cherry-pick of patches, left to right, onto accum ends in
RECURSIVE FoldPicks(_, _)
FoldPicks(accum, patches) ==
    IF patches = <<>> THEN accum
    ELSE FoldPicks(CherryPickCommit(accum, Head(patches)), Tail(patches))

\* the output of a rule of the rule book rs: an anchor's id, a series' patches
\* folded onto the output of its parent
RECURSIVE Output(_, _)
Output(rs, name) ==
    IF rs[name].kind = "Anchor" THEN rs[name].id
    ELSE FoldPicks(Output(rs, rs[name].parent), rs[name].patches)

\* the commit the first i patches of series name come to
StepBase(rs, name, i) ==
    FoldPicks(Output(rs, rs[name].parent), SubSeq(rs[name].patches, 1, i))

\* a series of rs that sits on an anchor
SeriesOnAnchor(rs, name) ==
    /\ ~SeriesLookupFails(rs, name)
    /\ rs[name].parent \in DOMAIN rs
    /\ rs[rs[name].parent].kind = "Anchor"

\* picking patch i of series name onto the commit of the patches before it is
\* the first pick of the series that conflicts
FirstConflictAt(rs, name, i) ==
    /\ i < NumPatches(rs[name])
    /\ CherryPickConflicts(StepBase(rs, name, i), rs[name].patches[i + 1])
    /\ \A j \in 0..(i - 1) :
         ~CherryPickConflicts(StepBase(rs, name, j), rs[name].patches[j + 1])

\* what the process of the step at hand started from: its world, its rule book,
\* its cache map
WorldBefore == IF last'.same THEN Running ELSE Loaded

RulesBefore == WorldBefore.rules

CacheBefore == WorldBefore.cache

\* the series the stored model holds under name
StoredSeries(name) == LoadModel(modelRef, head).rules[name]

\* what C1 asks of a step that is build(name) on the rule book rs
BuildReturnsFold(rs, name) ==
    last'.ok => /\ last'.id = Some(Output(rs, name))
                /\ \A a \in DOMAIN cache' : ~a.sign

\* C1: a successful build(name) returns, for a series, its patches folded left
\* to right by cherry-pick (sign = false) onto the output of its parent, and for
\* an anchor the anchor's id.
C1_BuildIsLeftFold ==
    [][last'.op = "build" => BuildReturnsFold(RulesBefore, last'.name)]_vars

\* a build of feat succeeded that picked two patches and rewrote them
C1_Witness ==
    /\ last.op = "build" /\ last.ok /\ last.name = "feat"
    /\ last.picks = 2
    /\ NumPatches(rules["feat"]) = 2
    /\ rules["feat"].patches # StoredSeries("feat").patches
    /\ last.id = Some(rules["feat"].patches[2])

\* C2: a build of the rule that the step before built, nothing done in between,
\* returns the same Oid and leaves the rule as the first build left it, patches
\* and all; in the same process it leaves the whole rule book as it was.
C2_RebuildReturnsSame ==
    [][(last.op = "build" /\ last.ok /\ last'.op = "build" /\ last'.name = last.name)
        => /\ last'.ok
           /\ last'.id = last.id
           /\ rules'[last.name] = rules[last.name]
           /\ last'.again => rules' = rules]_vars

\* feat was built a second time in the same process, after a first build that
\* rewrote its patches
C2_Witness ==
    /\ last.op = "build" /\ last.again /\ last.ok /\ last.name = "feat"
    /\ HasPatches(rules["feat"])
    /\ rules["feat"].patches # StoredSeries("feat").patches

\* C3 as the specification states it: the second build(name) of a process,
\* directly after a successful build(name), delegates no cherry-pick.
C3_SecondBuildOnlyHits == last.again => last.picks = 0

\* what C4 asks of a step that is build(name) on the world w, for a series
PatchesAreSteps(w, name) ==
    (last'.ok /\ ~SeriesLookupFails(w.rules, name)) =>
        /\ ~SeriesLookupFails(rules', name)
        /\ rules'[name].parent = w.rules[name].parent
        /\ NumPatches(rules'[name]) = NumPatches(w.rules[name])
        /\ \A i \in 0..(NumPatches(w.rules[name]) - 1) :
             /\ SeriesBuildPartial(w, w.rules[name], i + 1).id
                  = Some(rules'[name].patches[i + 1])
             /\ SeriesBuildPartial(Running', rules'[name], i + 1).id
                  = Some(rules'[name].patches[i + 1])

\* C4: after a successful build(name) of a series, patches[i] of the series in
\* the rule book is what build_partial(i + 1) returns, run on the series as it
\* was and run again on the series as it is; the parent and the number of
\* patches are as before.
C4_PatchesAreBuildSteps ==
    [][last'.op = "build" => PatchesAreSteps(WorldBefore, last'.name)]_vars

\* a new process built feat and rewrote its first patch
C4_Witness ==
    /\ last.op = "build" /\ last.ok /\ ~last.again /\ last.name = "feat"
    /\ HasPatches(rules["feat"])
    /\ rules["feat"].patches[1] # StoredSeries("feat").patches[1]
    /\ rules["feat"].patches[1].parent = Some(rules["base"].id)

\* the commits the repository is known to hold
KnownCommits ==
    BaseCommits \cup {head}
      \cup UNION {{rules[n].patches[i] : i \in 1..NumPatches(rules[n])} :
                    n \in {m \in DOMAIN rules : rules[m].kind = "Series"}}

\* r is what cache.cherry_pick(target, cherry, sign) returns to the running
\* process on a miss: a conflict is returned and the map left as it is; a clean
\* pick adds the one entry of the commit picked
MissOutcome(r, target, cherry, sign) ==
    IF CherryPickConflicts(target, cherry)
    THEN /\ ~r.ok
         /\ r.target = Some(target)
         /\ r.cherry = Some(cherry)
         /\ r.w.cache = cache
    ELSE /\ r.ok
         /\ r.w.cache = (CherryPickAction(target, cherry, sign)
                           :> CherryPickCommit(target, cherry)) @@ cache

\* what a command that started with the map pre leaves in the map: what was
\* there, and one entry for each cherry-pick delegated that did not conflict
CacheGrowth(pre) ==
    /\ \A a \in DOMAIN pre : a \in DOMAIN cache' /\ cache'[a] = pre[a]
    /\ \A a \in DOMAIN cache' \ DOMAIN pre :
         /\ ~CherryPickConflicts(a.target, a.cherry)
         /\ cache'[a] = CherryPickCommit(a.target, a.cherry)
    /\ Cardinality(DOMAIN cache') =
         Cardinality(DOMAIN pre) + last'.picks
           - (IF last'.err.kind = "PatchConflict" THEN 1 ELSE 0)
    /\ last'.err.kind = "PatchConflict" =>
         /\ CherryPickConflicts(last'.err.base[1], last'.err.patch[1])
         /\ CherryPickAction(last'.err.base[1], last'.err.patch[1], FALSE)
              \notin DOMAIN cache'

\* C5: a cherry_pick request that misses and conflicts returns the conflict and
\* leaves the cache map unchanged; an entry is added to the map only for a
\* delegated cherry-pick that succeeded.
C5_ConflictStoresNothing ==
    /\ [](\A target \in KnownCommits, cherry \in KnownCommits, sign \in BOOLEAN :
            CherryPickAction(target, cherry, sign) \notin DOMAIN cache =>
                MissOutcome(CacheCherryPick(Running, target, cherry, sign),
                            target, cherry, sign))
    /\ [][last'.op # "edit" => CacheGrowth(CacheBefore)]_vars

\* a command failed on a conflicting cherry-pick after a clean one: two picks
\* were delegated, one entry is in the map
C5_Witness ==
    /\ last.err.kind = "PatchConflict"
    /\ last.picks = 2
    /\ Cardinality(DOMAIN cache) = 1
    /\ CherryPickAction(last.err.base[1], last.err.patch[1], FALSE) \notin DOMAIN cache

\* C6 as the specification states it: what the cache of a process holds is what
\* the next process loads from refs/unstacked/cache.
C6_CacheReachesNextProcess ==
    \A a \in DOMAIN cache :
        a \in DOMAIN LoadCache(cacheRef) /\ LoadCache(cacheRef)[a] = cache[a]

\* what C7 asks of a step that is build(name) on the rule book rs
ConflictReported(rs, name) ==
    SeriesOnAnchor(rs, name) =>
        \A i \in 0..(NumPatches(rs[name]) - 1) :
            FirstConflictAt(rs, name, i) =>
                /\ ~last'.ok
                /\ last'.err = [kind  |-> "PatchConflict",
                                path  |-> Some(SeriesItem(name, Some(i))),
                                base  |-> Some(StepBase(rs, name, i)),
                                patch |-> Some(rs[name].patches[i + 1])]

\* C7: a build of a series whose cherry-pick of patch i conflicts fails with
\* PatchConflict: the path is SeriesItem{name, Some(i)}, the base is the commit
\* the patches before i came to, the patch is patches[i].
C7_ConflictIsReported ==
    [][last'.op = "build" => ConflictReported(RulesBefore, last'.name)]_vars

\* build(feat) failed at index 1, on a base that patch 0 was rewritten to
C7_Witness ==
    /\ last.op = "build" /\ last.name = "feat" /\ ~last.ok
    /\ last.err.kind = "PatchConflict"
    /\ last.err.path = Some(SeriesItem("feat", Some(1)))
    /\ last.err.base # Some(StoredSeries("feat").patches[1])
    /\ last.err.patch = Some(StoredSeries("feat").patches[2])

\* what C8 states of a step that is build(name) on the rule book rs
RewrittenUpToConflict(rs, name) ==
    SeriesOnAnchor(rs, name) =>
        \A i \in 0..(NumPatches(rs[name]) - 1) :
            FirstConflictAt(rs, name, i) =>
                /\ ~SeriesLookupFails(rules', name)
                /\ NumPatches(rules'[name]) = NumPatches(rs[name])
                /\ \A j \in 0..(NumPatches(rs[name]) - 1) :
                     rules'[name].patches[j + 1] =
                        IF j < i THEN StepBase(rs, name, j + 1)
                        ELSE rs[name].patches[j + 1]

UnchangedOnConflict(rs, name) ==
    SeriesOnAnchor(rs, name) =>
        \A i \in 0..(NumPatches(rs[name]) - 1) :
            FirstConflictAt(rs, name, i) => (~last'.ok /\ rules' = rs)

C9_FailedBuildKeepsRefs ==
    [][(last'.op = "build" /\ last'.err.kind = "PatchConflict") => ruleRefs' = ruleRefs]_vars

\* C10 as the specification states it: a Model operation that fails leaves the
\* model reference and every rule reference as they were.
C10_FailedOperationKeepsRefs ==
    [][(/\ last'.op \in {"goto_rule", "goto_next", "goto_parent",
                         "commit_onto_focus", "amend_focus"}
        /\ ~last'.ok)
        => (ruleRefs' = ruleRefs /\ modelRef' = modelRef)]_vars

\* the indices a path into series name of rs can carry: None, or Some(i), i < n
IndicesOf(rs, name) == {None} \cup {Some(i) : i \in 0..(NumPatches(rs[name]) - 1)}

\* the series of the rule book rs
SeriesOf(rs) == {n \in DOMAIN rs : rs[n].kind = "Series"}

\* build_path(name, idx) on the running world, when it succeeds, returns the
\* commit the first count patches of the series come to
BuildPathApplies(name, idx, count) ==
    RuleBookBuildPath(Running, SeriesItem(name, idx)).ok
        => RuleBookBuildPath(Running, SeriesItem(name, idx)).id
             = Some(StepBase(rules, name, count))

\* C11 as claimed: build_path with index None applies none of the series' own
\* patches and returns the commit of the parent rule, for every series, one
\* with patches included; with Some(i) it applies patches[0..=i].
C11_NoneIsParentOutput ==
    \A name \in SeriesOf(rules) : \A idx \in IndicesOf(rules, name) :
        BuildPathApplies(name, idx, IF idx = None THEN 0 ELSE idx[1] + 1)

\* C11, amended: build_path with index None applies all the patches of the
\* series, which is the commit of the parent rule only for a series without
\* patches; with Some(i) it applies patches[0..=i].
C11_NoneIsWholeSeries ==
    \A name \in SeriesOf(rules) : \A idx \in IndicesOf(rules, name) :
        BuildPathApplies(name, idx,
                         IF idx = None THEN NumPatches(rules[name]) ELSE idx[1] + 1)

\* goto_parent has checked out patch 0 of a series of two patches, a partial
\* build, and build_path with None on that series gives its last patch, which
\* is not the commit of its parent
C11_Witness ==
    /\ last.op = "goto_parent" /\ last.ok
    /\ focus # None /\ focus[1].path = SeriesItem("feat", Some(0))
    /\ NumPatches(rules["feat"]) = 2
    /\ last.id = Some(StepBase(rules, "feat", 1))
    /\ RuleBookBuildPath(Running, SeriesItem("feat", None)).ok
    /\ RuleBookBuildPath(Running, SeriesItem("feat", None)).id
         = Some(StepBase(rules, "feat", 2))
    /\ StepBase(rules, "feat", 2) # StepBase(rules, "feat", 0)

\* what C12 says from_rule(name, side) on the rule book rs returns
FromRuleAsClaimed(rs, name, side, r) ==
    IF name \in DOMAIN rs /\ rs[name].kind = "Series"
    THEN /\ r.ok
         /\ r.path = Some(SeriesItem(name,
                        IF Len(rs[name].patches) = 0 THEN None
                        ELSE IF side = "Last" THEN Some(Len(rs[name].patches) - 1)
                        ELSE Some(0)))
    ELSE ~r.ok /\ r.path = None

\* C12: from_rule on a series with n > 0 patches returns SeriesItem{name,
\* Some(n-1)} for Last and SeriesItem{name, Some(0)} for First, on a series
\* without patches index None for both sides, and on an anchor or a missing
\* rule an error.
C12_FromRule ==
    /\ \A name \in PathNames, side \in Sides :
         FromRuleAsClaimed(rules, name, side, PathFromRule(rules, name, side))
    /\ pos.op = "from_rule" => FromRuleAsClaimed(rules, pos.name, pos.side, pos)

\* from_rule(a, First) was run on a series of two patches and gave Some(0), where
\* Last gives Some(1), while base is an anchor and b is missing
C12_Witness ==
    /\ pos.op = "from_rule" /\ pos.name = "a" /\ pos.side = "First"
    /\ DOMAIN rules = {"a", "base"}
    /\ rules["base"].kind = "Anchor"
    /\ rules["a"].kind = "Series" /\ Len(rules["a"].patches) = 2
    /\ pos.ok /\ pos.path = Some(SeriesItem("a", Some(0)))
    /\ PathFromRule(rules, "a", "Last").path = Some(SeriesItem("a", Some(1)))

\* the rules of rs that declare name as their parent
Dependents(rs, name) ==
    {d \in DOMAIN rs : rs[d].kind = "Series" /\ rs[d].parent = name}

\* the First position of series d of rs
FirstOf(rs, d) == SeriesItem(d, IF Len(rs[d].patches) = 0 THEN None ELSE Some(0))

\* the Last position of series d of rs
LastOf(rs, d) ==
    SeriesItem(d, IF Len(rs[d].patches) = 0 THEN None ELSE Some(Len(rs[d].patches) - 1))

\* r is the answer at the end of a series: by the number of its dependents
AtEndAsClaimed(rs, p, r) ==
    /\ Dependents(rs, p.name) = {} => (r.ok /\ r.path = Some(p))
    /\ \A d \in Dependents(rs, p.name) :
         Dependents(rs, p.name) = {d} => (r.ok /\ r.path = Some(FirstOf(rs, d)))
    /\ Cardinality(Dependents(rs, p.name)) > 1 => (~r.ok /\ r.err.kind = "Ambiguous")

\* a series of rs
IsSeries(rs, name) == name \in DOMAIN rs /\ rs[name].kind = "Series"

\* what C13 says p.next() on the rule book rs returns
NextAsClaimed(rs, p, r) ==
    IF p.index = None THEN AtEndAsClaimed(rs, p, r)
    ELSE IsSeries(rs, p.name) =>
           /\ p.index[1] + 1 < Len(rs[p.name].patches)
                => (r.ok /\ r.path = Some(SeriesItem(p.name, Some(p.index[1] + 1))))
           /\ p.index[1] + 1 = Len(rs[p.name].patches) => AtEndAsClaimed(rs, p, r)

\* C13: next from Some(i) with i+1 < n returns Some(i+1) of the same series; from
\* the last patch or from index None it returns the same path when no rule
\* declares the series as parent, the First position of the dependent when
\* exactly one does, and the Ambiguous error when more than one does.
C13_Next ==
    /\ \A p \in PathInputs : NextAsClaimed(rules, p, PathNext(rules, p))
    /\ pos.op = "next" => NextAsClaimed(rules, pos.from[1], pos)

\* next was run on the last patch of a, whose one dependent b has two patches,
\* and entered b at its first patch
C13_Witness ==
    /\ pos.op = "next" /\ pos.ok
    /\ IsSeries(rules, "a") /\ Len(rules["a"].patches) = 2
    /\ pos.from = Some(SeriesItem("a", Some(1)))
    /\ Dependents(rules, "a") = {"b"} /\ Len(rules["b"].patches) = 2
    /\ pos.path = Some(SeriesItem("b", Some(0)))

\* r is from_rule(parent rule of series name, Last): the Last position of a parent
\* that is a series, an error for a parent that is missing or an anchor
ParentRuleAsClaimed(rs, name, r) ==
    IF IsSeries(rs, rs[name].parent)
    THEN r.ok /\ r.path = Some(LastOf(rs, rs[name].parent))
    ELSE ~r.ok /\ r.path = None

\* what C14 says p.parent() on the rule book rs returns
ParentAsClaimed(rs, p, r) ==
    /\ (p.index # None /\ p.index[1] > 0)
         => (r.ok /\ r.path = Some(SeriesItem(p.name, Some(p.index[1] - 1))))
    /\ (IsSeries(rs, p.name) /\ p.index = Some(0)) => ParentRuleAsClaimed(rs, p.name, r)
    /\ (IsSeries(rs, p.name) /\ p.index = None /\ Len(rs[p.name].patches) = 0)
         => ParentRuleAsClaimed(rs, p.name, r)
    /\ (IsSeries(rs, p.name) /\ p.index = None /\ Len(rs[p.name].patches) > 0)
         => (r.ok /\ r.path = Some(SeriesItem(p.name, Some(Len(rs[p.name].patches) - 1))))

\* C14: parent from Some(i) with i > 0 returns Some(i-1); from Some(0), or from
\* None on a series without patches, it returns from_rule(parent rule, Last) and
\* so fails when the parent rule is missing or is an anchor; from None on a
\* series with n > 0 patches it returns Some(n-1).
C14_Parent ==
    /\ \A p \in PathInputs : ParentAsClaimed(rules, p, PathParent(rules, p))
    /\ pos.op = "parent" => ParentAsClaimed(rules, pos.from[1], pos)

\* parent was run on patch 0 of b and gave the last patch of its parent series a,
\* while parent on patch 0 of a fails, a's parent base being an anchor
C14_Witness ==
    /\ pos.op = "parent" /\ pos.ok
    /\ pos.from = Some(SeriesItem("b", Some(0)))
    /\ IsSeries(rules, "b") /\ rules["b"].parent = "a"
    /\ IsSeries(rules, "a") /\ Len(rules["a"].patches) = 2 /\ rules["a"].parent = "base"
    /\ pos.path = Some(SeriesItem("a", Some(1)))
    /\ "base" \in DOMAIN rules /\ rules["base"].kind = "Anchor"
    /\ ~PathParent(rules, SeriesItem("a", Some(0))).ok

\* next applied k times to the Result<Path> r, stopping at an error
RECURSIVE NextTimes(_, _, _)
NextTimes(rs, r, k) ==
    IF k = 0 \/ ~r.ok THEN r ELSE NextTimes(rs, PathNext(rs, r.path[1]), k - 1)

\* a series of rs with patches that no rule declares as parent
TipWithPatches(rs, name) ==
    /\ IsSeries(rs, name)
    /\ Len(rs[name].patches) >= 1
    /\ Dependents(rs, name) = {}

\* C15: for every series with n >= 1 patches that no rule declares as parent,
\* next applied n-1 times to from_rule(name, First) gives from_rule(name, Last),
\* and next applied once more gives the same path again.
C15_FirstToLast ==
    \A name \in PathNames :
        TipWithPatches(rules, name) =>
          /\ PathFromRule(rules, name, "Last").ok
          /\ NextTimes(rules, PathFromRule(rules, name, "First"),
                       Len(rules[name].patches) - 1)
               = PathFromRule(rules, name, "Last")
          /\ NextTimes(rules, PathFromRule(rules, name, "First"), Len(rules[name].patches))
               = PathFromRule(rules, name, "Last")

\* next was run on the last patch of a series of two patches without dependents,
\* the path that one next from its first patch gives, and stayed there
C15_Witness ==
    /\ TipWithPatches(rules, "a") /\ Len(rules["a"].patches) = 2
    /\ pos.op = "next" /\ pos.ok
    /\ pos.from = Some(SeriesItem("a", Some(1)))
    /\ pos.from = PathNext(rules, PathFromRule(rules, "a", "First").path[1]).path
    /\ pos.path = pos.from
    /\ pos.path = PathFromRule(rules, "a", "Last").path

\* no rule of rs is the parent of more than one rule
NoBranch(rs) == \A n \in DOMAIN rs : Cardinality(Dependents(rs, n)) <= 1

\* the paths into the series of rs: index None, or Some(i) with i < n
PathsInto(rs) ==
    {p \in PathInputs :
        /\ IsSeries(rs, p.name)
        /\ p.index # None => p.index[1] < Len(rs[p.name].patches)}

\* the paths from_rule, next and parent give: index None only on a series
\* without patches
PathsGiven(rs) ==
    {p \in PathsInto(rs) : p.index = None => Len(rs[p.name].patches) = 0}

\* next and parent undo each other at p: nx is p.next(), pr is p.parent()
RoundTrip(rs, p, nx, pr) ==
    /\ (nx.ok /\ nx.path # Some(p))
         => (PathParent(rs, nx.path[1]).ok /\ PathParent(rs, nx.path[1]).path = Some(p))
    /\ pr.ok => (PathNext(rs, pr.path[1]).ok /\ PathNext(rs, pr.path[1]).path = Some(p))

\* C16 as claimed: in a rule book where no rule has more than one dependent, for
\* every path p into a series, index None or Some(i) with i < n: if p.next()
\* succeeds and differs from p then p.next().parent() = p, and if p.parent()
\* succeeds then p.parent().next() = p.
C16_RoundTripAnyIndex ==
    NoBranch(rules) =>
        \A p \in PathsInto(rules) : RoundTrip(rules, p, PathNext(rules, p), PathParent(rules, p))

\* C16, amended: the same for every path p whose index is Some(i) with i < n, or
\* None on a series without patches.
C16_RoundTrip ==
    NoBranch(rules) =>
        \A p \in PathsGiven(rules) : RoundTrip(rules, p, PathNext(rules, p), PathParent(rules, p))

\* parent was run on the first patch of b, which next from the last patch of a had
\* given, and came back to the last patch of a
C16_Witness ==
    /\ NoBranch(rules)
    /\ IsSeries(rules, "a") /\ Len(rules["a"].patches) = 2
    /\ Dependents(rules, "a") = {"b"} /\ Len(rules["b"].patches) = 2
    /\ pos.op = "parent" /\ pos.ok
    /\ pos.from = PathNext(rules, SeriesItem("a", Some(1))).path
    /\ pos.from = Some(SeriesItem("b", Some(0)))
    /\ pos.path = Some(SeriesItem("a", Some(1)))

\* the rule book of the scenario: an anchor base, and two series a and b on base
\* without patches
TwoSeriesOnAnchor(rs) ==
    /\ DOMAIN rs = {"base", "a", "b"}
    /\ rs["base"].kind = "Anchor"
    /\ \A n \in {"a", "b"} :
         rs[n].kind = "Series" /\ rs[n].parent = "base" /\ rs[n].patches = <<>>

\* Path::from_rule(rules, name, Last)?.next(rules): next on the path from_rule
\* gave, or the error of from_rule
FromRuleThenNext(rs, name) == NextTimes(rs, PathFromRule(rs, name, "Last"), 1)

\* C17 as claimed: in a rule book with an anchor base and two series a and b on
\* base without patches, Path::from_rule("base", Last).next() results in the
\* Ambiguous error.
C17_AnchorNextAmbiguous ==
    TwoSeriesOnAnchor(rules) => FromRuleThenNext(rules, "base").err.kind = "Ambiguous"

\* C17, amended: in that rule book Path::from_rule("base", Last) fails with the
\* error for an anchor target, so no next is run on its result; next on the path
\* SeriesItem{base, None} results in the Ambiguous error.
C17_AnchorRejectedNextAmbiguous ==
    TwoSeriesOnAnchor(rules) =>
        /\ ~PathFromRule(rules, "base", "Last").ok
        /\ FromRuleThenNext(rules, "base").err.kind = "GenericError"
        /\ (pos.op = "from_rule" /\ pos.name = "base")
             => (~pos.ok /\ pos.err.kind = "GenericError" /\ ~ENABLED StepNext)
        /\ ~PathNext(rules, SeriesItem("base", None)).ok
        /\ PathNext(rules, SeriesItem("base", None)).err.kind = "Ambiguous"
        /\ (pos.op = "next" /\ pos.from = Some(SeriesItem("base", None)))
             => (~pos.ok /\ pos.err.kind = "Ambiguous")

\* from_rule(base, Last) was run on the rule book of the scenario and failed
C17_Witness ==
    /\ TwoSeriesOnAnchor(rules)
    /\ pos.op = "from_rule" /\ pos.name = "base" /\ pos.side = "Last"
    /\ ~pos.ok /\ pos.err.kind = "GenericError"
    /\ PathNext(rules, SeriesItem("base", None)).err.kind = "Ambiguous"

\* the paths of one segment or more
NonEmptyPaths == StorePaths \ {<<>>}

\* put r on path succeeded and get of the type of v on the tree it left returns v
PutThenGet(r, path, v) ==
    /\ r.ok
    /\ StoreGet(r.tree, path, v.type).ok
    /\ StoreGet(r.tree, path, v.type).val = Some(v)

\* a step that is get(path) of the type stored, directly after a put(path, v)
\* that succeeded
GetAfterPut ==
    /\ kv.op = "put" /\ kv.ok
    /\ kv'.op = "get" /\ kv'.path = kv.path /\ kv'.type = kv.type

\* C18: for every non-empty path and value, get(path) directly after put(path, v)
\* returns v; after put(path, v1) and then put(path, v2), get(path) returns v2.
C18_PutGetRoundTrip ==
    /\ [](\A path \in NonEmptyPaths, v \in StoreValues :
            /\ PutThenGet(StorePut(kv.tree, path, v), path, v)
            /\ \A v2 \in StoreValues :
                 PutThenGet(StorePut(StorePut(kv.tree, path, v).tree, path, v2), path, v2))
    /\ []((kv.op = "put" /\ kv.path # <<>>) => kv.ok)
    /\ [][GetAfterPut => (kv'.ok /\ kv'.val = kv.val)]_vars

\* get::<String>(["x", "y"]) returned the string with a quote that the blob at
\* that path holds as JSON text
C18_Witness ==
    /\ kv.op = "get" /\ kv.ok
    /\ kv.path = <<"x", "y">> /\ kv.type = "String"
    /\ kv.val = Some(Str(<<"a", "\"">>))
    /\ "x" \in DOMAIN kv.tree.entries
    /\ kv.tree.entries["x"].mode = "Tree"
    /\ "y" \in DOMAIN kv.tree.entries["x"].id.entries
    /\ kv.tree.entries["x"].id.entries["y"].id = Blob(<<"\"", "a", "\\", "\"", "\"">>)

\* get of either type on tree fails at path
GetFails(tree, path) == \A type \in ValueTypes : ~StoreGet(tree, path, type).ok

\* the get g returned the value v
Returned(g, v) == g.ok /\ g.val = Some(v)

\* r2 is what the later of two puts returned: it succeeded, get fails at gone and
\* returns v at kept
SecondPutReplaces(r2, gone, kept, v) ==
    /\ r2.ok
    /\ GetFails(r2.tree, gone)
    /\ Returned(StoreGet(r2.tree, kept, v.type), v)

\* r1 is what the earlier of two puts returned: it succeeded, and the later one,
\* put(path2, v2), replaces
FirstPutThen(r1, path2, v2, gone, kept, v) ==
    /\ r1.ok
    /\ SecondPutReplaces(StorePut(r1.tree, path2, v2), gone, kept, v)

\* both orders of put(p, x) and put(p + [k], y), from the tree t
ReplacesBothWays(t, p, k, x, y) ==
    /\ FirstPutThen(StorePut(t, p, x), Append(p, k), y, p, Append(p, k), y)
    /\ FirstPutThen(StorePut(t, Append(p, k), y), p, x, Append(p, k), p, x)

\* a step that is get(p) directly after a put(p + [k], y) that put a leaf below a
\* leaf at p
GetLeafPutBelow ==
    /\ kv.op = "put" /\ kv.ok /\ Len(kv.path) >= 2
    /\ kv'.op = "get" /\ kv'.path = SubSeq(kv.path, 1, Len(kv.path) - 1)

\* a step that is get(p + [k]) directly after a put(p, x)
GetBelowPutLeaf ==
    /\ kv.op = "put" /\ kv.ok /\ kv.path # <<>>
    /\ kv'.op = "get" /\ Len(kv'.path) = Len(kv.path) + 1
    /\ SubSeq(kv'.path, 1, Len(kv.path)) = kv.path

\* C19: after put(p, x) and then put(p + [k], y), get(p) fails and get(p + [k])
\* returns y; after put(p + [k], y) and then put(p, x), get(p + [k]) fails and
\* get(p) returns x; both puts succeed in both orders.
C19_Replacement ==
    /\ [](\A p \in NonEmptyPaths, k \in Keys, x \in StoreValues, y \in StoreValues :
            ReplacesBothWays(kv.tree, p, k, x, y))
    /\ [][(GetLeafPutBelow \/ GetBelowPutLeaf) => ~kv'.ok]_vars

\* get(["x"]) failed on a store where put(["x", "y"]) has put a leaf below x
C19_Witness ==
    /\ kv.op = "get" /\ ~kv.ok /\ kv.path = <<"x">>
    /\ "x" \in DOMAIN kv.tree.entries
    /\ kv.tree.entries["x"].mode = "Tree"
    /\ DOMAIN kv.tree.entries["x"].id.entries = {"y"}
    /\ StoreGet(kv.tree, <<"x", "y">>, "u64").val = Some(U64(42))

\* every get returns on the tree t2 what it returns on the tree t1
SameGets(t1, t2) ==
    \A path \in StorePaths, type \in ValueTypes :
        StoreGet(t2, path, type) = StoreGet(t1, path, type)

\* r is what a put with the empty path returned on the tree t: the Invalid error,
\* the tree as it was
EmptyPathRejected(t, r) ==
    /\ ~r.ok
    /\ r.err = "Invalid"
    /\ r.tree = t
    /\ SameGets(t, r.tree)

\* C20: put with an empty path is rejected with an error and leaves the tree of
\* the store as it was, so every later get returns what it returned before.
C20_EmptyPathRejected ==
    /\ [](\A v \in StoreValues : EmptyPathRejected(kv.tree, StorePut(kv.tree, <<>>, v)))
    /\ [][(kv'.op = "put" /\ kv'.path = <<>>) => EmptyPathRejected(kv.tree, kv')]_vars

\* put with the empty path was run on a store that holds a value at ["x", "y"]
\* and was rejected
C20_Witness ==
    /\ kv.op = "put" /\ kv.path = <<>>
    /\ ~kv.ok /\ kv.err = "Invalid"
    /\ kv.tree.kind = "tree"
    /\ StoreGet(kv.tree, <<"x", "y">>, "u64").ok

\* a step that is write(): the reference moves to a commit of the tree the store
\* held, whose parent is the commit the reference held before, written or opened
\* by this store, or none for the first write of a fresh store
WriteCommits ==
    /\ storeRef' # None
    /\ storeRef'[1].tree = kv.tree
    /\ storeRef'[1].parent = storeRef
    /\ kv'.tree = kv.tree
    /\ kv'.parent = storeRef'

\* a step that is Store::open: the new store answers every get as the tree last
\* written does, an empty store without reference, whatever the dropped store held
OpenReadsWritten ==
    /\ SameGets(IF storeRef = None THEN EmptyTree ELSE storeRef[1].tree, kv'.tree)
    /\ kv'.parent = storeRef

\* C21: write() makes a commit of the store's tree whose parent is the commit
\* written or opened before (none on the first write of a fresh store) and moves
\* the store reference to it, the only step that moves it; a Store opened after
\* it returns for every path what was written, and puts no write() followed are
\* not seen by a newly opened Store.
C21_StorePersistence ==
    /\ [][kv'.op = "write" => WriteCommits]_vars
    /\ [][kv'.op = "open" => OpenReadsWritten]_vars
    /\ [][storeRef' # storeRef => kv'.op = "write"]_vars

\* a store opened from the second commit of the chain, whose tree holds 42 at
\* ["x", "y"]
C21_Witness ==
    /\ kv.op = "open"
    /\ storeRef # None /\ storeRef[1].parent # None
    /\ storeRef[1].parent[1].tree # storeRef[1].tree
    /\ kv.parent = storeRef
    /\ StoreGet(kv.tree, <<"x", "y">>, "u64").val = Some(U64(42))

\* the three-way merge of changes onto target, both taken from base, conflicts
Conflicting(base, changes, target) ==
    \E f \in Files : changes[f] # base[f] /\ target[f] # base[f] /\ changes[f] # target[f]

\* that merge when it is clean: the target's content where the target changed
\* the file, else the content of changes
Reapplied(base, changes, target) ==
    [f \in Files |-> IF target[f] # base[f] THEN target[f] ELSE changes[f]]

\* what C22 says of a checkout of target from HEAD h, index tree i, working
\* directory d
ReconciledAsClaimed(h, i, d, target) ==
    IF Conflicting(h.tree, i, target.tree) \/ Conflicting(h.tree, d, target.tree)
    THEN ~last'.ok /\ head' = h /\ index' = i /\ workdir' = d
    ELSE /\ last'.ok
         /\ head' = target
         /\ index' = Reapplied(h.tree, i, target.tree)
         /\ workdir' = Reapplied(h.tree, d, target.tree)

\* C22: a checkout of a target commit fails with HEAD, index and working
\* directory unchanged if the merge of the staged tree or of the working
\* directory conflicts; if the merges are clean it ends with HEAD at the target,
\* the index equal to new_index_tree and the working directory equal to
\* new_workdir_tree.
C22_Reconcile ==
    [][last'.op = "checkout" => ReconciledAsClaimed(head, index, workdir, last'.id[1])]_vars

\* a checkout moved HEAD to another commit and carried a staged change and a
\* different unstaged change over: the index is not what checkout_tree left
C22_Witness ==
    /\ last.op = "checkout" /\ last.ok
    /\ head = last.id[1] /\ head.msg = "other"
    /\ index # head.tree
    /\ workdir # index /\ workdir # head.tree

\* the model stored under refs/unstacked/model, when it parses
SavedModel == modelRef[1].value

\* what C23 says Model::load returns, from the reference and HEAD before it
LoadedAsClaimed ==
    IF modelRef = None THEN rules' = EmptyMap /\ focus' = None
    ELSE /\ rules' = SavedModel.rules
         /\ focus' = IF SavedModel.focus # None /\ SavedModel.focus[1].id = head
                     THEN SavedModel.focus
                     ELSE None

\* C23: a successful Model::load returns the saved rule book, with the saved
\* focus if its id is the commit HEAD is at and with no focus otherwise; with
\* no model reference it returns an empty rule book and no focus.
C23_LoadFocus ==
    [][last'.op = "load" /\ last'.ok => LoadedAsClaimed]_vars

\* a model with a focus was loaded after HEAD had moved: the rule book is there,
\* the focus is dropped
C23_Witness ==
    /\ last.op = "load" /\ last.ok
    /\ modelRef # None /\ SavedModel.focus # None
    /\ SavedModel.focus[1].id # head
    /\ "feat" \in DOMAIN rules /\ focus = None

\* a reference that holds a blob which does not parse
Unparsable(ref) == ref # None /\ ~ref[1].parses

\* C29: opening the repository with a cache blob that does not parse, or with
\* no cache reference, gives an empty cache and no error of its own; a model
\* blob that does not parse makes Model::load fail.
C29_MalformedBlobs ==
    [][last'.op = "load" =>
         /\ (cacheRef = None \/ Unparsable(cacheRef)) => cache' = EmptyMap
         /\ last'.ok <=> ~Unparsable(modelRef)
         /\ Unparsable(modelRef) => last'.err.kind = "Invalid"]_vars

\* a command started with an unparsable cache blob and a model that parses, and
\* went on with an empty cache
C29_Witness ==
    /\ last.op = "load" /\ last.ok
    /\ Unparsable(cacheRef) /\ cache = EmptyMap
    /\ modelRef # None /\ rules # EmptyMap

\* the operations of Model that return at once when there is no focus
FocusOps == {"goto_next", "goto_parent", "commit_onto_focus", "amend_focus"}

\* the operation of this step returned Ok and left what the process had loaded:
\* the rule book, no focus, HEAD, index, working directory, the rule references
\* and the cache; it delegated no cherry-pick and produced no commit
Untouched ==
    /\ last'.ok /\ last'.id = None /\ last'.picks = 0
    /\ rules' = Loaded.rules
    /\ focus' = None
    /\ cache' = Loaded.cache
    /\ head' = head /\ index' = index /\ workdir' = workdir
    /\ ruleRefs' = ruleRefs /\ cacheRef' = cacheRef

\* C24: with no focus, goto_next, goto_parent, commit_onto_focus and amend_focus
\* return success and leave the rule book, the focus, HEAD and the references
\* as they were; the model reference then holds what Model::save writes after
\* the operation, the loaded model.
C24_NoFocusNoOp ==
    [][last'.op \in FocusOps /\ LoadedFocus = None =>
         Untouched /\ modelRef' = Some(ModelOf(Loaded.rules, None))]_vars

\* a commit was asked for with rules defined, an edit in the working directory
\* and no focus: it returned Ok and nothing was committed
C24_Witness ==
    /\ last.op = "commit_onto_focus" /\ last.ok
    /\ focus = None
    /\ "feat" \in DOMAIN rules
    /\ workdir # head.tree

\* the loaded focus is at the last patch of its series and no series has that
\* series for a parent
AtLastPatch ==
    /\ LoadedFocus # None
    /\ LET path == LoadedFocus[1].path IN
       /\ path.name \in DOMAIN Loaded.rules
       /\ Loaded.rules[path.name].kind = "Series"
       /\ path.index = Some(NumPatches(Loaded.rules[path.name]) - 1)
       /\ \A n \in DOMAIN Loaded.rules :
            Loaded.rules[n].kind = "Series" => Loaded.rules[n].parent # path.name

\* C25 as stated: with a clean index and the focus at the last patch of a series
\* without dependents, goto_next returns success, leaves the focus path the same
\* and updates no reference.
C25_NextAtEndIsNoOp ==
    [][last'.op = "goto_next" /\ AtLastPatch /\ index = head.tree =>
         /\ last'.ok
         /\ focus' # None /\ focus'[1].path = LoadedFocus[1].path
         /\ ruleRefs' = ruleRefs]_vars

\* the patches of the loaded series name are a chain of commits on the commit
\* of its parent, an anchor, and the rule references and the focus hold what a
\* build of them returns
UpToDate(name) ==
    LET series == Loaded.rules[name] IN
    /\ series.parent \in DOMAIN Loaded.rules
    /\ Loaded.rules[series.parent].kind = "Anchor"
    /\ series.patches[1].parent = Some(Loaded.rules[series.parent].id)
    /\ \A i \in 2..NumPatches(series) : series.patches[i].parent = Some(series.patches[i - 1])
    /\ series.parent \in DOMAIN ruleRefs
    /\ ruleRefs[series.parent] = Loaded.rules[series.parent].id
    /\ name \in DOMAIN ruleRefs
    /\ ruleRefs[name] = series.patches[NumPatches(series)]
    /\ LoadedFocus[1].id = series.patches[NumPatches(series)]

\* goto_next at the last patch of name rebuilt and checked out the same path
RebuiltInPlace(name) ==
    /\ last'.ok =>
         /\ focus' # None
         /\ focus'[1].path = LoadedFocus[1].path
         /\ focus' = Some(Focus(LoadedFocus[1].path, last'.id[1]))
         /\ head' = last'.id[1]
         /\ name \in DOMAIN ruleRefs' /\ ruleRefs'[name] = last'.id[1]
    /\ ~last'.ok => focus' = LoadedFocus /\ head' = head
    /\ UpToDate(name) =>
         last'.ok /\ ruleRefs' = ruleRefs /\ focus' = LoadedFocus /\ head' = head

\* C25, amended: with the focus at the last patch of a series without
\* dependents, goto_next keeps the focus path and rebuilds and checks out that
\* path.  When it succeeds, the focus, HEAD and the rule reference of the series
\* hold the rebuilt commit; when it fails, focus and HEAD are as they were; when
\* the series was already built on its anchor and the references hold that
\* build, it succeeds and changes no reference, focus or HEAD.
C25_NextAtEndRebuilds ==
    [][last'.op = "goto_next" /\ AtLastPatch /\ index = head.tree =>
         RebuiltInPlace(LoadedFocus[1].path.name)]_vars

\* goto_next succeeded with the focus at the only patch of feat, where it was
\* before, and delegated a cherry-pick for the rebuild
C25_Witness ==
    /\ last.op = "goto_next" /\ last.ok /\ last.picks > 0
    /\ focus # None /\ focus[1].path = SeriesItem("feat", Some(0))
    /\ NumPatches(rules["feat"]) = 1
    /\ ruleRefs["feat"] = focus[1].id

\* the messages of a list of patches
MessagesOf(patches) == [j \in 1..Len(patches) |-> patches[j].msg]

\* the first k of the patches old are commits made one on the other on the
\* anchor's commit, so that a build of them returns them
PrefixBuilt(old, k, anchor) ==
    /\ k >= 1 => old[1].parent = Some(anchor)
    /\ \A j \in 2..k : old[j].parent = Some(old[j - 1])

\* what C26 says of a commit onto the focus fc that returned Ok: old and new are
\* the patches of the series before and after, k the place of the new patch
InsertedAt(fc, old, new, k) ==
    /\ Len(new) = Len(old) + 1
    /\ focus' = Some(Focus(SeriesItem(fc.path.name, Some(k)), new[k + 1]))
    /\ new[k + 1].msg \in Messages
    /\ MessagesOf(new) = InsertAt(MessagesOf(old), k, new[k + 1].msg)
    /\ \A j \in (k + 1)..Len(old) : new[j + 1] = old[j]
    /\ ( /\ PrefixBuilt(old, k, Loaded.rules["base"].id)
         /\ fc.id = ChainCommit(Loaded.rules["base"].id, SubSeq(old, 1, k), None) )
       => /\ new[k + 1] = NewCommit(fc.id, workdir, new[k + 1].msg)
          /\ new = InsertAt(old, k, new[k + 1])

\* the place commit_onto_focus inserts at for the focus fc of a series with n
\* patches
PlaceAfter(fc, n) == IF fc.path.index = None THEN n ELSE fc.path.index[1] + 1

\* C26: commit_onto_focus creates a commit on the focus commit with the
\* captured tree, inserts it after the focused patch (at the end when the focus
\* has no index), keeps the other patches in their order and, when it succeeds,
\* moves the focus to the inserted patch.
C26_CommitInserts ==
    [][last'.op = "commit_onto_focus" /\ LoadedFocus # None /\ last'.ok =>
         InsertedAt(LoadedFocus[1], Loaded.rules["feat"].patches, rules'["feat"].patches,
                    PlaceAfter(LoadedFocus[1], NumPatches(Loaded.rules["feat"])))]_vars

\* the scenario of the claim: a commit onto the second of two patches gave a
\* third patch on the second and the focus on it
C26_Witness ==
    /\ last.op = "commit_onto_focus" /\ last.ok
    /\ MessagesOf(rules["feat"].patches) = <<"p1", "p2", "m">>
    /\ rules["feat"].patches[3].parent = Some(rules["feat"].patches[2])
    /\ focus = Some(Focus(SeriesItem("feat", Some(2)), rules["feat"].patches[3]))

\* what C27 says of an amend of the focus fc = (series, Some(i)) that returned
\* Ok: old and new are the patches of the series before and after
AmendedAt(fc, old, new, i) ==
    /\ Len(new) = Len(old)
    /\ focus' = Some(Focus(fc.path, new[i + 1]))
    /\ head' = new[i + 1]
    /\ MessagesOf(new) = MessagesOf(old)
    /\ \A j \in (i + 2)..Len(old) : new[j] = old[j]
    /\ (PrefixBuilt(old, i + 1, Loaded.rules["base"].id) /\ fc.id = old[i + 1])
       => new = [old EXCEPT ![i + 1] = [parent |-> fc.id.parent, tree |-> workdir,
                                        msg |-> fc.id.msg]]

\* C27: amend_focus with a focus at patch i replaces that patch by the focus
\* commit with the captured tree, same parent and message, keeps the number of
\* patches and the focus path and sets the focus id to the rebuilt commit; with
\* a focus without index it fails and changes neither rule book nor focus.
C27_AmendReplaces ==
    [][last'.op = "amend_focus" /\ LoadedFocus # None =>
         IF LoadedFocus[1].path.index = None
         THEN ~last'.ok /\ rules' = Loaded.rules /\ focus' = LoadedFocus
              /\ modelRef' = modelRef /\ head' = head
         ELSE last'.ok =>
                AmendedAt(LoadedFocus[1], Loaded.rules["feat"].patches,
                          rules'["feat"].patches, LoadedFocus[1].path.index[1])]_vars

\* the first of two patches was amended with a tree it did not have: it is the
\* focus commit with that tree, and the second patch is as it was
C27_Witness ==
    /\ last.op = "amend_focus" /\ last.ok
    /\ focus # None /\ focus[1].path = SeriesItem("feat", Some(0))
    /\ NumPatches(rules["feat"]) = 2
    /\ focus[1].id = rules["feat"].patches[1]
    /\ rules["feat"].patches[2].parent # Some(rules["feat"].patches[1])
    /\ workdir = focus[1].id.tree

\* name is no series of the loaded rule book: an anchor, or not there
NoSeries(name) ==
    name \notin DOMAIN Loaded.rules \/ Loaded.rules[name].kind = "Anchor"

\* what C28 says of goto_rule(name), p being Path::from_rule(rules, name, Last)
WentToRule(name, p) ==
    /\ last'.ok =>
         /\ p.ok
         /\ focus' = Some(Focus(p.path[1], last'.id[1]))
         /\ head' = last'.id[1]
         /\ ruleRefs'[name] = last'.id[1]
    /\ NoSeries(name) =>
         /\ ~last'.ok
         /\ focus' = LoadedFocus /\ rules' = Loaded.rules /\ head' = head
         /\ index' = index /\ workdir' = workdir
         /\ ruleRefs' = ruleRefs /\ modelRef' = modelRef

\* C28: a goto_rule that succeeds sets the focus to the path from_rule gives
\* for the rule with side Last and to the commit built for it, which HEAD is
\* moved to; for an anchor or a name that is no rule it fails and leaves the
\* focus, the rule book and HEAD as they were.
C28_GotoRule ==
    [][last'.op = "goto_rule" =>
         WentToRule(last'.name, PathFromRule(Loaded.rules, last'.name, "Last"))]_vars

\* with the focus in feat, a goto of the anchor base failed and the focus stayed
C28_Witness ==
    /\ last.op = "goto_rule" /\ ~last.ok /\ last.name = "base"
    /\ "base" \in DOMAIN rules /\ rules["base"].kind = "Anchor"
    /\ focus # None /\ focus[1].path.name = "feat"
    /\ head = focus[1].id

\* a build is running whose parent chain does not cycle / cycles
BuildingAcyclic == calls # <<>> /\ ~Diverges(rules, calls[1].name)
BuildingCyclic == calls # <<>> /\ Diverges(rules, calls[1].name)

\* build has returned a result or an error to its caller
BuildReturned == calls = <<>> /\ last.op = "build"

\* C30: build(name) returns, a result or an error, whenever the parent chain
\* from name does not cycle, and its stack does not overflow; when the chain
\* cycles, no call returns to the caller: the recursion goes on until the
\* stack is exhausted.
C30_BuildTerminates ==
    /\ BuildingAcyclic ~> BuildReturned
    /\ [][BuildingAcyclic => last'.op # "abort"]_vars
    /\ [][BuildingCyclic => (calls' # <<>> \/ last'.op = "abort")]_vars
    /\ BuildingCyclic ~> (calls = <<>> /\ last.op = "abort")

\* build("a") returned the commit of a series on a series on an anchor, after
\* three calls one in the other
C30_Witness ==
    /\ BuildReturned /\ last.ok /\ last.name = "a"
    /\ DOMAIN rules = PathNames
    /\ rules["a"].kind = "Series" /\ rules["a"].parent = "b"
    /\ rules["b"].kind = "Series" /\ rules["b"].parent = "base"
    /\ rules["b"].patches # <<>>
    /\ ruleRefs["a"] = last.id[1]

\* the rule book as it was before any build rewrote a patch list, in a process
\* that has built nothing yet
Original == Loaded

\* C31: whatever build, build_path and build_all calls a process has made on its
\* rule book, a build(name) that succeeds returns the commit that build(name)
\* returns on the rule book as it was before any of them rewrote a patch list.
C31_RewritingKeepsResults ==
    [][last'.op = "build" /\ last'.ok
         => /\ Build(Original, last'.name).ok
            /\ last'.id = Build(Original, last'.name).id]_vars

\* top was built on a rule book whose patch lists differ from the stored ones
C31_Witness ==
    /\ last.op = "build" /\ last.ok /\ last.name = "top"
    /\ modelRef # None
    /\ rules # modelRef[1].rules
    /\ rules["top"].parent = "low"
    /\ rules["low"].patches # <<>>
    /\ rules["top"].patches # <<>>
    /\ rules["base"].id # StackRoot
    /\ last.hits > 0

\* the entry of the cache under action holds what git_helper::cherry_pick
\* returns for the action's target and cherry
EntrySound(action) ==
    /\ GitCherryPick(action.target, action.cherry).ok
    /\ GitCherryPick(action.target, action.cherry).id = Some(cache[action])

\* a request for action is answered with the stored commit; the repository is
\* not asked and the cache is left as it is
HitAnswers(action, c) ==
    /\ c.ok
    /\ c.id = Some(cache[action])
    /\ c.w.picks = 0
    /\ c.w.hits = 1
    /\ c.w.cache = cache

\* C32: at every point of a process each entry of its operation cache,
\* CherryPick {target, cherry, sign} -> id, holds the commit the cherry-pick of
\* cherry onto target really makes, and a request that finds an entry returns
\* the stored commit without a cherry-pick being run.
C32_MemoSound ==
    \A action \in DOMAIN cache :
        /\ EntrySound(action)
        /\ HitAnswers(action, CacheCherryPick(Running, action.target, action.cherry,
                                              action.sign))

\* a build was answered from a cache of several entries
C32_Witness ==
    /\ last.op = "build" /\ last.ok
    /\ last.hits > 0
    /\ last.picks = 0
    /\ Cardinality(DOMAIN cache) >= 2

\* the rule name and the rules its output is built on, in a rule book without
\* cycles
RECURSIVE BuiltWith(_, _)
BuiltWith(rs, name) ==
    IF rs[name].kind = "Anchor" THEN {name}
    ELSE {name} \cup BuiltWith(rs, rs[name].parent)

\* after the step the rule reference of name is at id
RefSetTo(name, id) == name \in DOMAIN ruleRefs' /\ ruleRefs'[name] = id

\* the step left the rule reference of name as it was
RefKept(name) ==
    IF name \in DOMAIN ruleRefs
    THEN name \in DOMAIN ruleRefs' /\ ruleRefs'[name] = ruleRefs[name]
    ELSE name \notin DOMAIN ruleRefs'

\* what C33 asks of a successful build(name)
BuildSetsRefs(name) ==
    /\ RefSetTo(name, last'.id[1])
    /\ \A rule \in BuiltWith(rules, name) : RefSetTo(rule, Output(rules, rule))

\* what C33 asks of a successful build_path(path)
BuildPathSetsRef(path) ==
    IF IsTopPatch(rules[path.name], path.index)
    THEN RefSetTo(path.name, last'.id[1])
    ELSE RefKept(path.name) /\ ~RefSetTo(path.name, last'.id[1])

\* C33: a successful build(name) sets the rule reference of name to the commit
\* returned, for an anchor too, and the references of the rules built on the
\* way to theirs; a successful build_path(path) sets the rule reference of the
\* path's series to the commit returned if and only if the index is None or the
\* last one, and leaves it unchanged otherwise.
C33_RuleRefs ==
    /\ [][last'.op = "build" /\ last'.ok => BuildSetsRefs(last'.name)]_vars
    /\ [][last'.op = "build_path" /\ last'.ok => BuildPathSetsRef(pos'.path[1])]_vars

\* the first of two patches of low was built after low's rule reference was
\* set: the reference stays at the output of low
C33_Witness ==
    /\ last.op = "build_path" /\ last.ok
    /\ pos.path = Some(SeriesItem("low", Some(0)))
    /\ NumPatches(rules["low"]) = 2
    /\ "low" \in DOMAIN ruleRefs
    /\ ruleRefs["low"] = rules["low"].patches[2]
    /\ ruleRefs["low"] # last.id[1]

\* first and second are two series with patches whose parents come to the same
\* commit and whose first patches are the same commit
ShareFirstPatch(first, second) ==
    /\ first # second
    /\ rules[first].kind = "Series" /\ rules[second].kind = "Series"
    /\ HasPatches(rules[first]) /\ HasPatches(rules[second])
    /\ Output(rules, rules[first].parent) = Output(rules, rules[second].parent)
    /\ rules[first].patches[1] = rules[second].patches[1]

\* the request build(second) makes for its first patch
FirstPick(second) ==
    CherryPickAction(Output(rules, rules[second].parent), rules[second].patches[1], FALSE)

\* built is what build(first) returned: the pick of second's first patch is in
\* its cache, the build of second ran no cherry-pick for it, and both series
\* hold the cached commit for their first patch
SecondLooksUp(first, second, built) ==
    /\ FirstPick(second) \in DOMAIN built.w.cache
    /\ last'.picks - built.w.picks <= NumPatches(rules[second]) - 1
    /\ last'.hits - built.w.hits >= 1
    /\ rules'[second].patches[1] = built.w.cache[FirstPick(second)]
    /\ rules'[first].patches[1] = rules'[second].patches[1]

\* C34: when two different series of a process come to the same base commit
\* and have the same commit for their first patch, building the second after
\* the first runs no cherry-pick for that patch, which is looked up in the
\* cache, and both series get the same commit for it.
C34_SharedPatchIsLookedUp ==
    [][(last'.op = "build_list" /\ last'.ok
          /\ ShareFirstPatch(pos'.names[1], pos'.names[2]))
         => SecondLooksUp(pos'.names[1], pos'.names[2], Build(Running, pos'.names[1]))]_vars

\* low and top, both on base and with the same first patch, were built one
\* after the other on a moved anchor: top's only patch was not picked again
C34_Witness ==
    /\ last.op = "build_list" /\ last.ok
    /\ pos.names = <<"low", "top">>
    /\ modelRef[1].rules["top"].parent = "base"
    /\ modelRef[1].rules["top"].patches # <<>>
    /\ modelRef[1].rules["low"].patches # <<>>
    /\ modelRef[1].rules["top"].patches[1] = modelRef[1].rules["low"].patches[1]
    /\ rules = [modelRef[1].rules EXCEPT !["low"] = rules["low"], !["top"] = rules["top"]]
    /\ rules["top"].patches[1] = rules["low"].patches[1]
    /\ rules["top"].patches[1] # modelRef[1].rules["top"].patches[1]
    /\ last.picks = NumPatches(rules["low"])
    /\ last.hits = 1

\* the operations of Model that move the focus
FocusMoves == FocusOps \cup {"goto_rule"}

\* the focus is at the commit HEAD is at, which is the commit build_path returns
\* for its path; the model saved holds it and a load returns it
FocusAtHead ==
    /\ focus[1].id = head
    /\ BuildPath(Running, focus[1].path).ok
    /\ BuildPath(Running, focus[1].path).id = Some(focus[1].id)
    /\ modelRef = Some(ModelOf(rules, focus))
    /\ LoadModel(modelRef, head).focus = focus

\* C35: after every successful goto_rule, goto_next, goto_parent,
\* commit_onto_focus or amend_focus that ends with a focus, the focus' id is the
\* commit HEAD is at and the commit build_path returns for the focus' path, so
\* that the model saved, when loaded, still has the focus.
C35_FocusIsHead ==
    (last.op \in FocusMoves /\ last.ok /\ focus # None)
        => (last.id = Some(focus[1].id) /\ FocusAtHead)

\* an amend left the focus at the second of two patches, on a commit that is
\* not the one the focus was at before
C35_Witness ==
    /\ last.op = "amend_focus" /\ last.ok
    /\ focus # None
    /\ focus[1].path.index = Some(1)
    /\ focus[1].id = head
    /\ head.tree = [f \in Files |-> 1]
    /\ head.parent[1].tree # head.tree

\* the focus names a series of the rule book and its index, if any, is the
\* index of a patch of that series
FocusInRange ==
    /\ ~SeriesLookupFails(rules, focus[1].path.name)
    /\ focus[1].path.index # None
         => focus[1].path.index[1] < NumPatches(rules[focus[1].path.name])

\* C36 as the specification states it: in every state reached through the
\* operations of Model a focus names a rule that is in the rule book and is a
\* series, a focus index Some(i) has i below the number of patches of that
\* series, and amend_focus never indexes the patches out of range.
C36_FocusInRange ==
    /\ focus # None => FocusInRange
    /\ last.err.kind # "Panic"

\* the focus fc, if its index is None and it names a series of rs, names a
\* series without patches
NoneIsEmpty(rs, fc) ==
    (fc # None /\ fc[1].path.index = None /\ ~SeriesLookupFails(rs, fc[1].path.name))
        => ~HasPatches(rs[fc[1].path.name])

\* the focus, set with index None, is in a series without patches, at the
\* commit its parent rule builds to, which is checked out
SetOnParentOutput ==
    /\ ~SeriesLookupFails(rules, focus[1].path.name)
    /\ ~HasPatches(rules[focus[1].path.name])
    /\ focus[1].id = Output(rules, rules[focus[1].path.name].parent)
    /\ head = focus[1].id

\* C37 as the specification states it: in every state reached through the
\* operations of Model from an empty model, a focus whose index is None names
\* a series that has no patches.
C37_NoneFocusIsEmpty ==
    (focus # None /\ focus[1].path.index = None)
        => /\ ~SeriesLookupFails(rules, focus[1].path.name)
           /\ ~HasPatches(rules[focus[1].path.name])

\* C37, amended: every operation of Model that succeeds and leaves a focus with
\* index None leaves it in a series without patches, and the commit checked out
\* is the output of that series' parent rule; in every model saved since, a
\* focus with index None that still names a series names one without patches.
C37_NoneFocusWhenSet ==
    /\ NoneIsEmpty(Loaded.rules, LoadedFocus)
    /\ (last.op \in FocusMoves /\ last.ok /\ focus # None /\ focus[1].path.index = None)
         => SetOnParentOutput

\* goto_rule entered feat, a series without patches on the anchor base, and
\* checked the anchor's commit out
C37_Witness ==
    /\ last.op = "goto_rule" /\ last.ok
    /\ focus # None
    /\ focus[1].path = SeriesItem("feat", None)
    /\ rules["feat"] = SeriesRule("base", <<>>)
    /\ rules["base"] = AnchorRule(RootCommit([f \in Files |-> 2]))
    /\ head = rules["base"].id

\* the patch at index i of the series at is the one that does not pick onto
\* what the patches before it came to, base, while the parent of the series
\* builds
ConflictsAt(at, i, base, patch) ==
    /\ ~SeriesLookupFails(rules, at)
    /\ i < NumPatches(rules[at])
    /\ Build(Running, rules[at].parent).ok
    /\ patch = rules[at].patches[i + 1]
    /\ base = StepBase(rules, at, i)
    /\ CherryPickConflicts(base, patch)

\* the PatchConflict err of a failed build(name) names a series name is built
\* with and the index of the patch of that series that conflicts
ConflictIsLocated(name, err) ==
    /\ err.path # None /\ err.path[1].index # None
    /\ err.path[1].name \in BuiltWith(rules, name)
    /\ ConflictsAt(err.path[1].name, err.path[1].index[1], err.base[1], err.patch[1])

\* C38: when build(name) fails because a cherry-pick conflicts in a series
\* that name is built on, the PatchConflict carries the path of that series
\* and the index of the conflicting patch within it, not the name asked for.
C38_ConflictNamesAncestor ==
    [][(last'.op = "build" /\ ~last'.ok /\ last'.err.kind = "PatchConflict")
         => ConflictIsLocated(last'.name, last'.err)]_vars

\* build(top) failed on the second patch of low, the series top is on
C38_Witness ==
    /\ last.op = "build" /\ last.name = "top" /\ ~last.ok
    /\ last.err.kind = "PatchConflict"
    /\ last.err.path = Some(SeriesItem("low", Some(1)))
    /\ rules["top"].parent = "low"
    /\ rules["top"].patches # <<>>

\* the step is a commit_onto_focus or an amend_focus on a focus that failed in
\* its rebuild or in the reconciliation of the worktree
FailedAfterChange ==
    /\ last'.op \in {"commit_onto_focus", "amend_focus"}
    /\ ~last'.ok
    /\ last'.err.kind \in {"PatchConflict", "Conflict"}

\* C39 as the specification states it: when commit_onto_focus or amend_focus
\* returns an error of the rebuild or of the worktree reconciliation, the rule
\* book and the focus of the Model are the same as before the call; the new or
\* amended commit is not left in the patches of the series.
C39_FailureRestoresRuleBook ==
    [][FailedAfterChange => (rules' = Loaded.rules /\ focus' = LoadedFocus)]_vars

\* the patches the series of the focus has in memory after the failed call:
\* one more than before after a commit, and after an amend whose rebuild
\* failed the amended commit at the index of the focus
PatchLeftBehind(fc, before, after) ==
    IF last'.op = "commit_onto_focus"
    THEN /\ NumPatches(after) = NumPatches(before) + 1
         /\ \E i \in 1..NumPatches(after) : after.patches[i].parent = Some(fc.id)
    ELSE /\ NumPatches(after) = NumPatches(before)
         /\ last'.err.kind = "PatchConflict"
              => after.patches[fc.path.index[1] + 1] = AmendCommit(fc.id, workdir)

\* C39, amended: when commit_onto_focus or amend_focus returns an error of the
\* rebuild or of the worktree reconciliation, the focus of the Model and the
\* model saved are the same as before the call, but the rule book in memory is
\* not put back: the series of the focus holds the commit that was inserted or
\* amended.
C39_FailureKeepsNewPatch ==
    [][FailedAfterChange =>
         /\ focus' = LoadedFocus
         /\ modelRef' = modelRef
         /\ PatchLeftBehind(LoadedFocus[1], Loaded.rules[LoadedFocus[1].path.name],
                            rules'[LoadedFocus[1].path.name])]_vars

\* an amend failed in the reconciliation of the worktree, after its rebuild:
\* the focus is where it was, the model saved has the patches it had, the
\* series in memory has the amended commit, rebuilt
C39_Witness ==
    /\ last.op = "amend_focus" /\ ~last.ok
    /\ last.err.kind = "Conflict"
    /\ focus # None
    /\ focus = modelRef[1].focus
    /\ rules["feat"].patches # modelRef[1].rules["feat"].patches
    /\ head = focus[1].id

\* p is the start of q
IsPrefix(p, q) == Len(p) <= Len(q) /\ SubSeq(q, 1, Len(p)) = p

\* neither of the paths is the start of the other
Apart(p, q) == ~IsPrefix(p, q) /\ ~IsPrefix(q, p)

\* every get at a path apart from p returns on the tree after what it returns
\* on the tree before
GetsApartKept(p, before, after) ==
    \A q \in StorePaths : Apart(p, q) =>
        \A type \in ValueTypes : StoreGet(after, q, type) = StoreGet(before, q, type)

\* C40: a put(p, v) that succeeds does not change what get(q) returns for any
\* path q such that neither p is a prefix of q nor q one of p; the entries
\* beside the ones on the path are kept at every level of the tree.
C40_PutFrame ==
    [][(kv'.op = "put" /\ kv'.ok) => GetsApartKept(kv'.path, kv.tree, kv'.tree)]_vars

\* put(["x", "y"]) succeeded on a store that holds values at ["x", "x"] and at
\* ["y"], which are still there
C40_Witness ==
    /\ kv.op = "put" /\ kv.ok /\ kv.path = <<"x", "y">>
    /\ StoreGet(kv.tree, <<"x", "x">>, "u64").ok
    /\ StoreGet(kv.tree, <<"y">>, "String").ok
    /\ StoreGet(kv.tree, <<"x", "y">>, "String").ok

=============================================================================
